---- MODULE Spec2Model ----
(***************************************************************************)
(* Supply-chain traceability pipeline: the identity resolution and        *)
(* consistency engine (Phase 2 company cleaning, Phase 3 identifiers,     *)
(* Phase 4 relational validation, Phase 6 duplicate detection, Phase 7    *)
(* summary statistics).  Python strings are sequences of characters; a character  *)
(* is a one-character string, or a named token for a character outside    *)
(* printable ASCII ("TAB", "e_acute", "sharp_s", "euro").                 *)
(***************************************************************************)
EXTENDS Integers, Sequences, FiniteSets, TLC

\* ------------------------------------------------------------------ bounds
MaxNameLen == 4
MaxCountryLen == 3
MaxRecords == 3
MaxRows == 3
MaxOrgs == 3
MaxLinks == 4
MaxCalls == 2
MaxIdLen == 2
MaxIndex == 2
MaxBuilderRows == 2
MaxInputRows == 3
MaxFacilityOrgs == 2

MaxStamp == 2

MaxDirFiles == 3

MaxFeedRows == 2

MaxRuns == 2

\* =================================================================== state
None == [type |-> "NoneType"]

\* pd.DataFrame(rows) / pd.read_csv(file): a table is its rows in order
DataFrame(rows) == [type |-> "DataFrame", rows |-> rows]

\* a Python list
List(items) == [type |-> "list", items |-> items]

\* {}
EmptyDict == [type |-> "dict"]

VARIABLES
  name_arg,          \* the cell handed to clean_company_name
  name_ret,          \* its results: of the call, of the call on that result, ...
  country_arg,       \* the cell handed to normalize_country
  country_ret,       \* what the call did (None before the call)
  records,           \* deduplicate_companies: its argument
  i,                 \* number of records the outer loop has consumed
  unique_companies,  \* the list being built
  seen_keys,         \* the keys of the accepted records
  kept,              \* history: input positions of the accepted records
  dedup_ret,         \* the returned list (None before the return)
  raw_file,          \* CompanyCleaner: rows of the file at input_path
  df,                \* self.df
  cleaned_df,        \* self.cleaned_df
  p2_error,          \* the raise that ended process(), None when none
  p2_saved,          \* the companies_cleaned_<ts> table written by save()
  id_calls,          \* history: the calls of generate_company_id made directly
  rel_files,         \* FinalExporter: latest tables in the relational directory
  companies_df,      \* self.companies_df
  facilities_df,     \* self.facilities_df
  links_df,          \* self.links_df
  summary_stats,     \* self.summary_stats
  id_call,           \* the one identifier call made: arguments, digest input, result
  md5_collisions,    \* the sets of digest inputs whose digests agree in 10 characters
  processed_files,   \* RelationalBuilder: latest tables in the processed directory
  processed_headerless, \* those of them written from a DataFrame without columns
  builder_companies, \* self.companies
  builder_facilities,\* self.facilities
  builder_links,     \* self.links
  validation,        \* the dict validate() returned (None before)
  relational_saved,  \* the three tables save() wrote (None before)
  builder_error,     \* the raise that ended the builder's run, None when none
  input_table,       \* DuplicateDetector: rows of the file at input_file
  sample_size,       \* self.sample_size
  similarity_threshold, \* self.similarity_threshold, in ten-thousandths
  random_state,      \* what the generator seeded with 42 draws for this table
  cos_sim,           \* the embedding provider: score of two descriptions
  det_df,            \* self.df
  det_sample,        \* history: input positions of the rows of self.df
  duplicates,        \* self.duplicates
  det_pairs,         \* history: sample positions (i, j) of the pairs emitted
  det_error,         \* the raise that ended the run, None when none
  det_saved,         \* the duplicate_companies_<ts> report written
  det_runs,          \* history: sample and report of the finished runs
  company_file,      \* FacilityProcessor: rows of the cleaned company file
  company_df,        \* self.company_df
  fac_facilities_df, \* self.facilities_df
  link_df,           \* self.link_df
  fac_error,         \* the raise that ended process(), None when none
  fac_saved,         \* whether FacilityProcessor.save() wrote its two files
  data_dir,          \* input discovery: the directory a stage reads
  load_stage,        \* the stage whose run() was called, None before
  load_ret,          \* what its load returned (the files selected) or raised
  outputs_written,   \* whether that run() went on to write its outputs
  feed,              \* organization records: the raw file of the source feed
  deduped_records,   \* what deduplicate_companies returned in Phase 2
  cleaned_csv,       \* companies_cleaned_<ts>.csv written by Phase 2
  sites_written,     \* whether Phase 3 wrote its site and link files
  relational_csv,    \* companies_<ts>.csv written by Phase 4
  final_csv,         \* companies_final_<ts>.csv written by Phase 7
  records_error,     \* the raise that ended a phase, None when none
  driver,            \* pipeline run: "main" (main.py) or "dashboard" (the loop)
  provider,          \* whether the embedding model loads, whether encode works
  position,          \* the place in the driver: before phase 1..7, 8, or Ended
  started,           \* the phases started, in order
  completed,         \* the phases whose run() returned
  failed,            \* the phase whose run() raised, 0 when none
  report,            \* "none", "success" or "failure": what the driver reported
  artifacts,         \* per phase, how often the run wrote its output artifacts
  provider_failure,  \* "none", or "create" / "encode": where the provider failed
  runs               \* the pipeline runs started so far

nameVars == << name_arg, name_ret >>

countryVars == << country_arg, country_ret >>

dedupVars == << records, i, unique_companies, seen_keys, kept, dedup_ret >>

cleanerVars == << raw_file, df, cleaned_df, p2_error, p2_saved, id_calls >>

exporterVars == << rel_files, companies_df, facilities_df, links_df, summary_stats >>

idVars == << id_call, md5_collisions >>

builderVars == << processed_files, processed_headerless, builder_companies,
                  builder_facilities, builder_links, validation, relational_saved,
                  builder_error >>

detectorVars == << input_table, sample_size, similarity_threshold, random_state,
                   cos_sim, det_df, det_sample, duplicates, det_pairs, det_error,
                   det_saved, det_runs >>

facilityVars == << company_file, company_df, fac_facilities_df, link_df, fac_error,
                   fac_saved >>

discoveryVars == << data_dir, load_stage, load_ret, outputs_written >>

recordVars == << feed, deduped_records, cleaned_csv, sites_written, relational_csv,
                 final_csv, records_error >>

pipelineVars == << driver, provider, position, started, completed, failed, report,
                   artifacts, provider_failure, runs >>

vars == << nameVars, countryVars, dedupVars, cleanerVars, exporterVars,
           idVars, builderVars, detectorVars, facilityVars, discoveryVars,
           recordVars, pipelineVars >>

\* -------------------------------------------------------------- characters
LowerLetters ==
  << "a", "b", "c", "d", "e", "f", "g", "h", "i", "j", "k", "l", "m",
     "n", "o", "p", "q", "r", "s", "t", "u", "v", "w", "x", "y", "z" >>

UpperLetters ==
  << "A", "B", "C", "D", "E", "F", "G", "H", "I", "J", "K", "L", "M",
     "N", "O", "P", "Q", "R", "S", "T", "U", "V", "W", "X", "Y", "Z" >>

Digits == << "0", "1", "2", "3", "4", "5", "6", "7", "8", "9" >>

Range(s) == { s[k] : k \in 1..Len(s) }

IndexOf(s, c) == CHOOSE k \in 1..Len(s) : s[k] = c

LowerSet == Range(LowerLetters)

UpperSet == Range(UpperLetters)

DigitSet == Range(Digits)

IsLower(c) == c \in LowerSet

IsUpper(c) == c \in UpperSet

\* cased characters: the ASCII letters and the Kelvin sign U+212A, an
\* upper-case character whose lower case is the ASCII "k"
IsCased(c) == IsLower(c) \/ IsUpper(c) \/ c = "kelvin"

\* regex \w on text that is ASCII after unidecode, and on the non-ASCII
\* letters before it
IsWord(c) == IsCased(c) \/ c \in DigitSet \/ c = "_" \/ c \in {"e_acute", "sharp_s"}

\* regex \s and the characters str.strip() removes
IsSpace(c) == c \in {" ", "TAB"}

LowerChar(c) ==
  IF c = "kelvin" THEN "k"
  ELSE IF IsUpper(c) THEN LowerLetters[IndexOf(UpperLetters, c)] ELSE c

UpperChar(c) == IF IsLower(c) THEN UpperLetters[IndexOf(LowerLetters, c)] ELSE c

\* code point order of the characters that occur in names handed to sorted()
CodePoints ==
  << "TAB", " ", "&", "-", ".", "0", "1", "2", "3", "4", "5", "6", "7", "8", "9" >>
  \o UpperLetters \o << "_" >> \o LowerLetters \o << "sharp_s", "e_acute", "euro", "kelvin" >>

Ord(c) == IndexOf(CodePoints, c)

\* ----------------------------------------------------------------- strings
\* str.lower()
RECURSIVE lower(_)
lower(s) == IF s = << >> THEN << >> ELSE << LowerChar(Head(s)) >> \o lower(Tail(s))

RECURSIVE lstrip(_)
lstrip(s) == IF s # << >> /\ IsSpace(Head(s)) THEN lstrip(Tail(s)) ELSE s

RECURSIVE rstrip(_)
rstrip(s) ==
  IF s # << >> /\ IsSpace(s[Len(s)]) THEN rstrip(SubSeq(s, 1, Len(s) - 1)) ELSE s

\* str.strip()
strip(s) == rstrip(lstrip(s))

\* str.title(): a cased character is upper-cased when the character before it
\* is not cased, lower-cased otherwise
RECURSIVE TitleFrom(_, _)
TitleFrom(s, prevCased) ==
  IF s = << >> THEN << >>
  ELSE LET c == Head(s)
       IN  << IF prevCased THEN LowerChar(c) ELSE UpperChar(c) >>
             \o TitleFrom(Tail(s), IsCased(c))

title(s) == TitleFrom(s, FALSE)

\* unidecode of one character
UnidecodeChar(c) ==
  CASE c = "e_acute" -> << "e" >>
    [] c = "sharp_s" -> << "s", "s" >>
    [] c = "euro"    -> << "E", "U", "R" >>
    [] c = "kelvin"  -> << "K" >>
    [] OTHER         -> << c >>

RECURSIVE unidecode(_)
unidecode(s) == IF s = << >> THEN << >> ELSE UnidecodeChar(Head(s)) \o unidecode(Tail(s))

\* re.sub(r"\s+", " ", s)
RECURSIVE CollapseSpaces(_)
CollapseSpaces(s) ==
  IF s = << >> THEN << >>
  ELSE IF IsSpace(Head(s)) THEN << " " >> \o CollapseSpaces(lstrip(s))
  ELSE << Head(s) >> \o CollapseSpaces(Tail(s))

\* variant: the punctuation is deleted instead of replaced by a space
RECURSIVE ReplacePunctuation_Delete(_)
ReplacePunctuation_Delete(s) ==
  IF s = << >> THEN << >>
  ELSE LET c == Head(s)
       IN  (IF IsWord(c) \/ IsSpace(c) \/ c \in {"-", "&"} THEN << c >> ELSE << >>)
             \o ReplacePunctuation_Delete(Tail(s))

\* re.sub(r"[^\w\s\-&]", " ", s)
RECURSIVE ReplacePunctuation(_)
ReplacePunctuation(s) ==
  IF s = << >> THEN << >>
  ELSE LET c == Head(s)
       IN  << IF IsWord(c) \/ IsSpace(c) \/ c \in {"-", "&"} THEN c ELSE " " >>
             \o ReplacePunctuation(Tail(s))

\* ------------------------------------------------------- names of the inputs
Morocco == << "M", "o", "r", "o", "c", "c", "o" >>

Spain == << "S", "p", "a", "i", "n" >>

AtlasTex == << "A", "t", "l", "a", "s", " ", "T", "e", "x" >>

TexAtlas == << "T", "e", "x", " ", "A", "t", "l", "a", "s" >>

AtlasTexa == << "A", "t", "l", "a", "s", " ", "T", "e", "x", "a" >>

AtlasTexas == << "A", "t", "l", "a", "s", " ", "T", "e", "x", "a", "s" >>

DedupNames == { AtlasTex, TexAtlas, AtlasTexa, AtlasTexas }

AtlasTextileLtd ==
  << "A", "t", "l", "a", "s", " ", "T", "e", "x", "t", "i", "l", "e", " ", "L", "t", "d" >>

AtlasTextileLimited ==
  << "A", "t", "l", "a", "s", " ", "T", "e", "x", "t", "i", "l", "e", " ",
     "L", "i", "m", "i", "t", "e", "d" >>

AtlasTextile ==
  << "A", "t", "l", "a", "s", " ", "T", "e", "x", "t", "i", "l", "e" >>

\* --------------------------------------------------- Phase 2: name cleaning
\* CompanyCleaner.LEGAL_SUFFIXES, in the order of the regex alternation
LEGAL_SUFFIXES ==
  << << "i", "n", "c" >>,
     << "l", "l", "c" >>,
     << "l", "t", "d" >>,
     << "l", "i", "m", "i", "t", "e", "d" >>,
     << "s", "a" >>,
     << "s", "a", "r", "l" >>,
     << "s", "a", "s" >>,
     << "p", "l", "c" >>,
     << "c", "o", "r", "p" >>,
     << "c", "o", "r", "p", "o", "r", "a", "t", "i", "o", "n" >>,
     << "c", "o" >>,
     << "c", "o", "m", "p", "a", "n", "y" >>,
     << "g", "r", "o", "u", "p" >>,
     << "h", "o", "l", "d", "i", "n", "g" >> >>

\* regex \b before position p of s (p = Len(s) + 1 is the end of the string)
WordBoundary(s, p) ==
  (p > 1 /\ IsWord(s[p - 1])) # (p <= Len(s) /\ IsWord(s[p]))

\* the alternative k of the suffix pattern matches at position p
\* (re.IGNORECASE), with \b on both sides
SuffixMatches(s, p, k) ==
  LET n == Len(LEGAL_SUFFIXES[k])
  IN  /\ WordBoundary(s, p)
      /\ p + n - 1 <= Len(s)
      /\ WordBoundary(s, p + n)
      /\ \A j \in 1..n : LowerChar(s[p + j - 1]) = LEGAL_SUFFIXES[k][j]

\* length of the match of the suffix pattern at position p, 0 when none: the
\* first alternative, in order, that lets the whole pattern match
SuffixMatchLen(s, p) ==
  IF ~WordBoundary(s, p) THEN 0
  ELSE LET ks == { k \in 1..Len(LEGAL_SUFFIXES) : SuffixMatches(s, p, k) }
       IN  IF ks = {} THEN 0
           ELSE Len(LEGAL_SUFFIXES[CHOOSE k \in ks : \A m \in ks : k <= m])

\* re.sub(suffix_pattern, "", s, flags=re.IGNORECASE): leftmost matches,
\* scanning left to right, each replaced by the empty string
RECURSIVE RemoveSuffixesFrom(_, _)
RemoveSuffixesFrom(s, p) ==
  IF p > Len(s) THEN << >>
  ELSE LET n == SuffixMatchLen(s, p)
       IN  IF n > 0 THEN RemoveSuffixesFrom(s, p + n)
           ELSE << s[p] >> \o RemoveSuffixesFrom(s, p + 1)

RemoveSuffixes(s) == RemoveSuffixesFrom(s, 1)

\* A pandas cell is dynamically typed: text, a number, or a missing value.
Str(s) == [type |-> "str", val |-> s]

Num(n) == [type |-> "int", val |-> n]

\* the missing value (None / NaN)
NaN == [type |-> "float", val |-> "nan"]

\* pd.isna(cell)
isna(cell) == cell = NaN

\* str(n) for an integer n >= 0
RECURSIVE DecimalDigits(_)
DecimalDigits(n) ==
  IF n < 10 THEN << Digits[n + 1] >>
  ELSE DecimalDigits(n \div 10) \o << Digits[(n % 10) + 1] >>

\* str(cell)
str(cell) == IF cell.type = "str" THEN cell.val ELSE DecimalDigits(cell.val)

\* what a call does: return a value or raise an exception
Return(v) == [kind |-> "return", value |-> v]

Raise(e) == [kind |-> "raise", exc |-> e]

\* CompanyCleaner.clean_company_name, computed
CleanCompanyName(name) ==
  IF isna(name) THEN << >>
  ELSE LET n1 == unidecode(strip(lower(str(name))))
           n2 == CollapseSpaces(n1)
           n3 == RemoveSuffixes(n2)
           n4 == ReplacePunctuation(n3)
           n5 == strip(CollapseSpaces(n4))
       IN  title(n5)

\* the raw names of the cleaner's input file, cleaned once
RawNames == { Str(AtlasTextileLtd), Str(AtlasTextileLimited) }

CleanedRawNames == [ c \in RawNames |-> CleanCompanyName(c) ]

\* CompanyCleaner.clean_company_name: looked up for a raw name of the input
\* file, computed for any other cell
clean_company_name(name) ==
  IF name \in RawNames THEN CleanedRawNames[name] ELSE CleanCompanyName(name)

\* ------------------------------------------- rapidfuzz.fuzz.token_sort_ratio
Max(a, b) == IF a >= b THEN a ELSE b

\* one row of the longest-common-subsequence table: row[j + 1] is the LCS
\* length of the prefix of a ending at character c and the first j of b
RECURSIVE LcsRow(_, _, _, _)
LcsRow(prev, c, b, cur) ==
  LET j == Len(cur)
  IN  IF j > Len(b) THEN cur
      ELSE LcsRow(prev, c, b,
                  Append(cur, IF c = b[j] THEN prev[j] + 1
                              ELSE Max(prev[j + 1], cur[j])))

RECURSIVE LcsRows(_, _, _)
LcsRows(a, b, prev) ==
  IF a = << >> THEN prev
  ELSE LcsRows(Tail(a), b, LcsRow(prev, Head(a), b, << 0 >>))

LcsLen(a, b) == LcsRows(a, b, [j \in 1..(Len(b) + 1) |-> 0])[Len(b) + 1]

\* Indel distance: insertions and deletions turning a into b
IndelDistance(a, b) == Len(a) + Len(b) - 2 * LcsLen(a, b)

\* str.split(): the maximal runs of non-whitespace characters
RECURSIVE SplitFrom(_, _)
SplitFrom(s, tok) ==
  IF s = << >> THEN (IF tok = << >> THEN << >> ELSE << tok >>)
  ELSE IF IsSpace(Head(s))
       THEN (IF tok = << >> THEN << >> ELSE << tok >>) \o SplitFrom(Tail(s), << >>)
       ELSE SplitFrom(Tail(s), Append(tok, Head(s)))

split(s) == SplitFrom(s, << >>)

\* string comparison a <= b by code points
RECURSIVE StrLeq(_, _)
StrLeq(a, b) ==
  IF a = << >> THEN TRUE
  ELSE IF b = << >> THEN FALSE
  ELSE IF Head(a) = Head(b) THEN StrLeq(Tail(a), Tail(b))
  ELSE Ord(Head(a)) < Ord(Head(b))

RECURSIVE InsertSorted(_, _)
InsertSorted(t, ts) ==
  IF ts = << >> THEN << t >>
  ELSE IF StrLeq(t, Head(ts)) THEN << t >> \o ts
  ELSE << Head(ts) >> \o InsertSorted(t, Tail(ts))

\* sorted(tokens)
RECURSIVE sorted(_)
sorted(ts) == IF ts = << >> THEN << >> ELSE InsertSorted(Head(ts), sorted(Tail(ts)))

\* " ".join(tokens)
RECURSIVE join(_)
join(ts) ==
  IF ts = << >> THEN << >>
  ELSE IF Len(ts) = 1 THEN Head(ts)
  ELSE Head(ts) \o << " " >> \o join(Tail(ts))

\* fuzz.ratio: 100 * (1 - dist / (len1 + len2)), 100 for two empty strings,
\* kept exact as the fraction num / den
ratio(a, b) ==
  LET m == Len(a) + Len(b)
  IN  IF m = 0 THEN [num |-> 100, den |-> 1]
      ELSE [num |-> 100 * (m - IndelDistance(a, b)), den |-> m]

\* fuzz.token_sort_ratio(s1, s2), computed: the ratio of the strings with
\* their whitespace-separated tokens sorted
TokenSortRatio(s1, s2) == ratio(join(sorted(split(s1))), join(sorted(split(s2))))

\* the names that reach the deduplication in the model's inputs, scored once
ScoredNames == DedupNames \cup { AtlasTextile }

ScoreTable == [ a \in ScoredNames |-> [ b \in ScoredNames |-> TokenSortRatio(a, b) ] ]

\* fuzz.token_sort_ratio(s1, s2): looked up for two names of the inputs,
\* computed for any other pair
token_sort_ratio(s1, s2) ==
  IF s1 \in ScoredNames /\ s2 \in ScoredNames THEN ScoreTable[s1][s2]
  ELSE TokenSortRatio(s1, s2)

\* score > n, score = n for a score kept as a fraction
ScoreAbove(score, n) == score.num > n * score.den

ScoreEquals(score, n) == score.num = n * score.den

\* ------------------------------------------------ Phase 2: deduplication
DedupThreshold == 90

\* variant: the threshold is inclusive (>= 90)
MatchesKey_AtLeast(name, country, key) ==
  /\ LET score == token_sort_ratio(name, key.company_name)
     IN  score.num >= DedupThreshold * score.den
  /\ country = key.country

\* variant: the country gate is missing
MatchesKey_AnyCountry(name, country, key) ==
  ScoreAbove(token_sort_ratio(name, key.company_name), DedupThreshold)

\* the test of the inner loop: the candidate (name, country) against one key
MatchesKey(name, country, key) ==
  /\ ScoreAbove(token_sort_ratio(name, key.company_name), DedupThreshold)
  /\ country = key.country

\* variant: only the most recently accepted key is compared
IsDuplicate_LastKeyOnly(name, country, seen) ==
  /\ seen # << >>
  /\ ScoreAbove(token_sort_ratio(name, seen[Len(seen)].company_name), DedupThreshold)
  /\ country = seen[Len(seen)].country

\* the inner loop of deduplicate_companies: is_duplicate after the scan of
\* seen_keys (the break only ends the scan early)
IsDuplicate(name, country, seen) ==
  \E k \in 1..Len(seen) : MatchesKey(name, country, seen[k])

\* position in seen of the first key the candidate matches
FirstMatch(name, country, seen) ==
  CHOOSE k \in 1..Len(seen) :
    /\ MatchesKey(name, country, seen[k])
    /\ \A m \in 1..(k - 1) : ~MatchesKey(name, country, seen[m])

\* variant: the description of a dropped duplicate is merged into the record
\* accepted for it
DedupBody_MergeIntoKept(st, record) ==
  LET name    == record.company_name
      country == record.country
  IN  IF IsDuplicate(name, country, st.seen_keys)
      THEN [st EXCEPT !.unique_companies[FirstMatch(name, country, st.seen_keys)].description =
                        record.description]
      ELSE [unique_companies |-> Append(st.unique_companies, record),
            seen_keys |-> Append(st.seen_keys,
                                 [company_name |-> name, country |-> country])]

\* variant: a duplicate replaces the record accepted before it (last wins)
DedupBody_KeepLast(st, record) ==
  LET name    == record.company_name
      country == record.country
      key     == [company_name |-> name, country |-> country]
  IN  IF IsDuplicate(name, country, st.seen_keys)
      THEN LET k == FirstMatch(name, country, st.seen_keys)
           IN  [unique_companies |-> [st.unique_companies EXCEPT ![k] = record],
                seen_keys |-> [st.seen_keys EXCEPT ![k] = key]]
      ELSE [unique_companies |-> Append(st.unique_companies, record),
            seen_keys |-> Append(st.seen_keys, key)]

\* one iteration of the outer loop of deduplicate_companies on the loop
\* state st = [unique_companies, seen_keys]
DedupBody(st, record) ==
  LET name    == record.company_name
      country == record.country
  IN  IF IsDuplicate(name, country, st.seen_keys) THEN st
      ELSE [unique_companies |-> Append(st.unique_companies, record),
            seen_keys |-> Append(st.seen_keys,
                                 [company_name |-> name, country |-> country])]

\* the loop state after the first n records
RECURSIVE DedupLoop(_, _)
DedupLoop(recs, n) ==
  IF n = 0 THEN [unique_companies |-> << >>, seen_keys |-> << >>]
  ELSE DedupBody(DedupLoop(recs, n - 1), recs[n])

\* CompanyCleaner.deduplicate_companies
deduplicate_companies(recs) == DedupLoop(recs, Len(recs)).unique_companies

\* ------------------------------------------ Phase 2: country normalisation
\* pycountry.countries: the records of the country table that the model
\* carries (the table is configuration; every record has these fields)
CountryTable ==
  << [ name          |-> << "M", "o", "r", "o", "c", "c", "o" >>,
       alpha_2       |-> << "M", "A" >>,
       alpha_3       |-> << "M", "A", "R" >>,
       numeric       |-> << "5", "0", "4" >>,
       official_name |-> << "K", "i", "n", "g", "d", "o", "m", " ", "o", "f", " ",
                            "M", "o", "r", "o", "c", "c", "o" >> ],
     [ name          |-> << "S", "p", "a", "i", "n" >>,
       alpha_2       |-> << "E", "S" >>,
       alpha_3       |-> << "E", "S", "P" >>,
       numeric       |-> << "7", "2", "4" >>,
       official_name |-> << "K", "i", "n", "g", "d", "o", "m", " ", "o", "f", " ",
                            "S", "p", "a", "i", "n" >> ] >>

\* the record matches the lower-cased value on one of its fields
CountryMatches(c, v) ==
  \/ lower(c.alpha_2) = v
  \/ lower(c.alpha_3) = v
  \/ lower(c.name) = v
  \/ lower(c.numeric) = v
  \/ lower(c.official_name) = v

\* pycountry.countries.lookup(value) for a string: case-insensitive, the
\* record found or LookupError
countries_lookup(value) ==
  LET v  == lower(value)
      ks == { k \in 1..Len(CountryTable) : CountryMatches(CountryTable[k], v) }
  IN  IF ks = {} THEN Raise("LookupError")
      ELSE Return(CountryTable[CHOOSE k \in ks : \A m \in ks : k <= m])

Unknown == << "U", "n", "k", "n", "o", "w", "n" >>

\* CompanyCleaner.normalize_country: country.strip() is evaluated before the
\* lookup and outside what `except LookupError` catches for a non-text cell
normalize_country(country) ==
  IF isna(country) THEN Return(Unknown)
  ELSE IF country.type # "str" THEN Raise("AttributeError")
  ELSE LET c == countries_lookup(strip(country.val))
       IN  IF c.kind = "return" THEN Return(c.value.name)
           ELSE Return(title(strip(country.val)))

\* ------------------------------------------------ Phase 2: identifiers
\* the digest inputs whose digests have the same first 10 characters as that
\* of key
DigestClass(key) ==
  IF \E c \in md5_collisions : key \in c
  THEN CHOOSE c \in md5_collisions : key \in c
  ELSE { key }

\* hashlib.md5(key.encode()).hexdigest(): 32 lower-case hexadecimal
\* characters determined by the key.  The digest is not computed: its k-th
\* character is kept as the value "character k of the digest of key", the
\* same for two keys whose digests agree there
hexdigest(key) ==
  [k \in 1..32 |-> [ md5  |-> IF k <= 10 THEN DigestClass(key) ELSE { key },
                     pos  |-> k,
                     case |-> "lower" ]]

\* str.upper() on hexadecimal characters
HexUpper(s) == [k \in 1..Len(s) |-> [s[k] EXCEPT !.case = "upper"]]

\* variant: the digest is cut to 8 characters
Md5Hex10Upper_Hex8(key) == HexUpper(SubSeq(hexdigest(key), 1, 8))

\* hashlib.md5(key.encode()).hexdigest()[:10].upper()
Md5Hex10Upper(key) == HexUpper(SubSeq(hexdigest(key), 1, 10))

\* variant: name and country are concatenated without a separator
CompanyKey_NoSeparator(name, country) == lower(name) \o lower(country)

\* the digest input of generate_company_id
CompanyKey(name, country) == lower(name) \o << "|" >> \o lower(country)

\* variant: identifiers are numbered in the order they are asked for
generate_company_id_Sequential(name, country) ==
  << "C", "M", "P", "_", Len(id_calls) >>

\* CompanyCleaner.generate_company_id
generate_company_id(name, country) ==
  << "C", "M", "P", "_" >> \o Md5Hex10Upper(CompanyKey(name, country))

\* ------------------------------------------------ Phase 3: identifiers
\* the digest input of generate_facility_id
FacilityKey(company_id, index) == company_id \o << "|" >> \o str(Num(index))

\* FacilityProcessor.generate_facility_id
generate_facility_id(company_id, index) ==
  << "F", "A", "C", "_" >> \o Md5Hex10Upper(FacilityKey(company_id, index))

\* ------------------------------------------------ Phase 2: process
\* datetime.utcnow().date().isoformat() of the run
Today == "today"

\* row.get(column, default)
row_get(row, column, default) == IF column \in DOMAIN row THEN row[column] ELSE default

\* the record process() builds from one raw row whose country normalises
BuildRecord(row) ==
  LET clean_name == clean_company_name(row.company_name)
      country    == normalize_country(row.country).value
  IN  [ company_id     |-> generate_company_id(clean_name, country),
        company_name   |-> clean_name,
        country        |-> country,
        industry       |-> row_get(row, "industry", ""),
        description    |-> row_get(row, "description", ""),
        website        |-> row_get(row, "website", ""),
        facility_count |-> row_get(row, "facility_count", 0),
        first_seen     |-> Today ]

\* the rows loop of process(): the records in row order, or the exception of
\* the first row whose country cell makes normalize_country raise
RECURSIVE BuildRows(_, _)
BuildRows(table, rows) ==
  IF table = << >> THEN Return(rows)
  ELSE LET c == normalize_country(Head(table).country)
       IN  IF c.kind = "raise" THEN c
           ELSE BuildRows(Tail(table), Append(rows, BuildRecord(Head(table))))

\* CompanyCleaner.process on the loaded table: the deduplicated records that
\* become cleaned_df, or the exception that ends it
process(table) ==
  LET rows == BuildRows(table, << >>)
  IN  IF rows.kind = "raise" THEN rows
      ELSE Return(deduplicate_companies(rows.value))

\* ------------------------------------------------ Phase 7: summary statistics
\* links_df.groupby("company_id")["facility_id"].count(): one group per
\* company id that occurs in the link table; the counts sum to the number of
\* links (every link of the tables carries a facility id)
LinkGroups(links) == { links[k].company_id : k \in 1..Len(links) }

\* Series.mean(): sum of the group counts over the number of groups, as the
\* fraction num / den; nan when there is no group
GroupMean(links) ==
  IF LinkGroups(links) = {} THEN [nan |-> TRUE, num |-> 0, den |-> 1]
  ELSE [nan |-> FALSE, num |-> Len(links), den |-> Cardinality(LinkGroups(links))]

\* round(x, 2) in hundredths (ties to even; exact while den <= 8); nan stays nan
Round2(x) ==
  IF x.nan THEN [nan |-> TRUE, hundredths |-> 0]
  ELSE LET q == (100 * x.num) \div x.den
           r == (100 * x.num) % x.den
       IN  [nan |-> FALSE,
            hundredths |-> IF 2 * r < x.den THEN q
                           ELSE IF 2 * r > x.den THEN q + 1
                           ELSE IF q % 2 = 0 THEN q ELSE q + 1]

\* FinalExporter.compute_summary_stats
compute_summary_stats(companies, facilities, links) ==
  [ total_companies  |-> Len(companies),
    total_facilities |-> Len(facilities),
    average_facilities_per_company |-> Round2(GroupMean(links)) ]

\* ------------------------------------------------ Phase 3: facilities
\* int(cell): the integer of a number cell; a missing cell (float nan) and
\* text that is no number raise ValueError
int(cell) ==
  IF cell.type = "int" THEN Return(cell.val) ELSE Raise("ValueError")

\* FacilityProcessor.generate_facility_name
generate_facility_name(company_name, index) ==
  company_name \o << " ", "F", "a", "c", "i", "l", "i", "t", "y", " " >> \o str(Num(index))

\* variant: the index is left out of the digest input of a site
generate_facility_id_NoIndex(company_id, index) ==
  << "F", "A", "C", "_" >> \o Md5Hex10Upper(company_id \o << "|" >>)

\* the facility and the link appended for index k of a company row
FacilityOf(row, k) ==
  [ facility_id   |-> generate_facility_id(row.company_id, k),
    facility_name |-> generate_facility_name(row.company_name, k),
    country       |-> row.country,
    created_at    |-> Today ]

LinkOf(row, k) ==
  [ company_id |-> row.company_id, facility_id |-> generate_facility_id(row.company_id, k) ]

\* `for i in range(1, facility_count + 1)` for one row
RowFacilities(row, facility_count) ==
  [k \in 1..facility_count |-> FacilityOf(row, k)]

RowLinks(row, facility_count) ==
  [k \in 1..facility_count |-> LinkOf(row, k)]

\* the rows loop of FacilityProcessor.process: the lists built, or the
\* exception of the first row whose facility_count is no integer
RECURSIVE FacilityRows(_, _, _)
FacilityRows(table, facilities, links) ==
  IF table = << >> THEN Return([facilities |-> facilities, links |-> links])
  ELSE LET row == Head(table)
           facility_count == int(row_get(row, "facility_count", Num(1)))
       IN  IF facility_count.kind = "raise" THEN facility_count
           ELSE FacilityRows(Tail(table),
                             facilities \o RowFacilities(row, facility_count.value),
                             links \o RowLinks(row, facility_count.value))

\* FacilityProcessor.process on the loaded company table
facility_process(table) == FacilityRows(table, << >>, << >>)

\* ------------------------------------------------------ input discovery
\* the file names the stages write: "<prefix><timestamp><extension>"
ArtifactPrefix ==
  [ companies_cleaned  |-> << "c", "o", "m", "p", "a", "n", "i", "e", "s", "_", "c", "l", "e", "a", "n", "e", "d", "_" >>,
    facilities_cleaned |-> << "f", "a", "c", "i", "l", "i", "t", "i", "e", "s", "_", "c", "l", "e", "a", "n", "e", "d", "_" >>,
    company_facilities |-> << "c", "o", "m", "p", "a", "n", "y", "_", "f", "a", "c", "i", "l", "i", "t", "i", "e", "s", "_" >>,
    companies          |-> << "c", "o", "m", "p", "a", "n", "i", "e", "s", "_" >>,
    facilities         |-> << "f", "a", "c", "i", "l", "i", "t", "i", "e", "s", "_" >> ]

Csv == << ".", "c", "s", "v" >>

Json == << ".", "j", "s", "o", "n" >>

FileName(type, ts, ext) == ArtifactPrefix[type] \o ts \o ext

\* str.startswith, str.endswith and `pattern in f`
startswith(s, p) == Len(p) <= Len(s) /\ SubSeq(s, 1, Len(p)) = p

endswith(s, p) == Len(p) <= Len(s) /\ SubSeq(s, Len(s) - Len(p) + 1, Len(s)) = p

contains(s, p) == \E k \in 0..(Len(s) - Len(p)) : SubSeq(s, k + 1, k + Len(p)) = p

\* Path(dir).glob("<prefix>*.csv"): the names that start with the prefix and
\* end with .csv; nothing for a directory that does not exist
glob(dir, prefix) ==
  { f \in dir.files : /\ Len(f) >= Len(prefix) + Len(Csv)
                      /\ startswith(f, prefix)
                      /\ endswith(f, Csv) }

\* sorted(files, reverse=True)[0]: the greatest name, IndexError on no file
FirstOfSortedReverse(files) ==
  IF files = {} THEN Raise("IndexError")
  ELSE Return(CHOOSE f \in files : \A g \in files : StrLeq(g, f))

\* `files = sorted(glob(...), reverse=True); if not files: raise
\* FileNotFoundError; files[0]` of FacilityProcessor and DuplicateDetector
LatestOrNotFound(files) ==
  IF files = {} THEN Raise("FileNotFoundError") ELSE FirstOfSortedReverse(files)

\* find_latest(pattern) of AnalyticsDashboard.load_relational_data
find_latest(dir, pattern) ==
  LatestOrNotFound({ f \in dir.files : endswith(f, Csv) /\ contains(f, pattern) })

\* three lookups in the order of the code: the first that raises ends the load
ThreeFiles(c, f, l) ==
  IF c.kind = "raise" THEN c
  ELSE IF f.kind = "raise" THEN f
  ELSE IF l.kind = "raise" THEN l
  ELSE Return([ companies |-> c.value, facilities |-> f.value, links |-> l.value ])

\* FacilityProcessor.load_companies with no company_file given
load_companies(dir) ==
  LET c == LatestOrNotFound(glob(dir, ArtifactPrefix.companies_cleaned))
  IN  IF c.kind = "raise" THEN c ELSE Return([ companies |-> c.value ])

\* RelationalBuilder.load_data: the three files it reads
builder_load_data(dir) ==
  ThreeFiles(FirstOfSortedReverse(glob(dir, ArtifactPrefix.companies_cleaned)),
             FirstOfSortedReverse(glob(dir, ArtifactPrefix.facilities_cleaned)),
             FirstOfSortedReverse(glob(dir, ArtifactPrefix.company_facilities)))

\* AnalyticsDashboard.load_relational_data: the three files it reads
load_relational_data(dir) ==
  IF ~ dir.exists THEN Raise("FileNotFoundError")
  ELSE ThreeFiles(find_latest(dir, ArtifactPrefix.companies),
                  find_latest(dir, ArtifactPrefix.facilities),
                  find_latest(dir, ArtifactPrefix.company_facilities))

\* DuplicateDetector.load_data with no input_file given: the file it reads
detector_input_file(dir) ==
  LET c == LatestOrNotFound(glob(dir, ArtifactPrefix.companies_cleaned))
  IN  IF c.kind = "raise" THEN c ELSE Return([ companies |-> c.value ])

\* FinalExporter.load_data: the three relational files it reads
exporter_load_data(dir) ==
  ThreeFiles(FirstOfSortedReverse(glob(dir, ArtifactPrefix.companies)),
             FirstOfSortedReverse(glob(dir, ArtifactPrefix.facilities)),
             FirstOfSortedReverse(glob(dir, ArtifactPrefix.company_facilities)))

\* --------------------------------------------------- pipeline drivers
\* the position of a driver that has left its run
Ended == 9

\* variant: the duplicate detector is run first
PhaseAt_DetectorFirst(pos) == IF pos = 1 THEN 6 ELSE IF pos <= 6 THEN pos - 1 ELSE 7

\* the phase a driver runs at a position: the statements of main() in their
\* order, `for phase in range(1, 8)` of the dashboard
PhaseAt(pos) == pos

\* variant: the run goes on after a phase that raised
NextPosition_ContinueAfterFailure(ok, pos) == pos + 1

\* where a driver goes after a phase: to the next statement when run()
\* returned; when it raised, main() to its except clause and out, the loop of
\* the dashboard to `break`
NextPosition(ok, pos) == IF ok THEN pos + 1 ELSE Ended

\* DuplicateDetector().run() against the provider: the model is loaded in
\* __init__, the descriptions are encoded in detect_duplicates, before
\* save_results
DetectorProviderFailure(p) ==
  IF ~ p.model_available THEN "create"
  ELSE IF ~ p.encode_ok THEN "encode"
  ELSE "none"

\* --------------------------------------------------------- CSV files
\* a CSV file: its rows, every cell as the text written
CsvFile(rows) == [type |-> "csv", rows |-> rows]

\* the columns of the organization table that hold text
TextColumns == { "company_id", "company_name", "country" }

\* the texts pd.read_csv takes for a missing value
NA_VALUES ==
  { << >>, << "#", "N", "/", "A" >>, << "#", "N", "A" >>, << "<", "N", "A", ">" >>, << "N", "/", "A" >>, << "N", "A" >>, << "N", "U", "L", "L" >>, << "N", "a", "N" >>, << "n", "/", "a" >>, << "n", "a", "n" >>, << "n", "u", "l", "l" >> }

\* pd.DataFrame(list_of_dicts): the text cells of the records as str cells
FrameOfRecords(rows) ==
  [k \in 1..Len(rows) |->
     [c \in DOMAIN rows[k] |-> IF c \in TextColumns THEN Str(rows[k][c]) ELSE rows[k][c]]]

\* DataFrame.to_csv(index=False): a missing cell is written as the empty text
to_csv(frame) ==
  CsvFile([k \in 1..Len(frame) |->
     [c \in DOMAIN frame[k] |->
        IF c \in TextColumns
        THEN IF isna(frame[k][c]) THEN << >> ELSE frame[k][c].val
        ELSE frame[k][c]]])

\* pd.read_csv(file): a cell whose text is one of the missing-value texts is
\* read as missing
read_csv(file) ==
  [k \in 1..Len(file.rows) |->
     [c \in DOMAIN file.rows[k] |->
        IF c \in TextColumns
        THEN IF file.rows[k][c] \in NA_VALUES THEN NaN ELSE Str(file.rows[k][c])
        ELSE file.rows[k][c]]]

\* ------------------------------------------------ files without columns
\* DataFrame(list_of_dicts).to_csv: a list without dicts gives a DataFrame
\* without columns, whose file holds no header line
WrittenHeaderless(files) == { f \in DOMAIN files : files[f] = << >> }

\* pd.read_csv of the three files: a file without a header line raises
read_csv_all(files, headerless) ==
  IF headerless # {} THEN Raise("EmptyDataError") ELSE Return(files)

\* ------------------------------------------------ Phase 4: validation
\* table[col]: the column of a table, in row order
Column(table, col) == [k \in 1..Len(table) |-> table[k][col]]

\* list(a_set): the elements once each, in an order the hashing decides
Orders(S) ==
  { q \in [1..Cardinality(S) -> S] : \A a, b \in 1..Cardinality(S) : q[a] = q[b] => a = b }

\* Series.is_unique
is_unique(column) == \A a, b \in 1..Len(column) : column[a] = column[b] => a = b

\* DataFrame.duplicated().any(): some row repeats an earlier row in every column
duplicated_any(table) == \E a, b \in 1..Len(table) : a < b /\ table[a] = table[b]

\* link_company_ids - company_ids
MissingCompanies(self) ==
  Range(Column(self.links, "company_id")) \ Range(Column(self.companies, "company_id"))

\* link_facility_ids - facility_ids
MissingFacilities(self) ==
  Range(Column(self.links, "facility_id")) \ Range(Column(self.facilities, "facility_id"))

\* company_ids - link_company_ids
OrphanCompanies(self) ==
  Range(Column(self.companies, "company_id")) \ Range(Column(self.links, "company_id"))

\* variant: only the links of a known organization reference a site
OrphanFacilities_KnownCompanyLinks(self) ==
  Range(Column(self.facilities, "facility_id"))
    \ { self.links[k].facility_id :
          k \in { n \in 1..Len(self.links) :
                    self.links[n].company_id \in Range(Column(self.companies, "company_id")) } }

\* facility_ids - link_facility_ids
OrphanFacilities(self) ==
  Range(Column(self.facilities, "facility_id")) \ Range(Column(self.links, "facility_id"))

\* variant: two links of one organization count as a duplicate link
DuplicateLinks_SameCompany(self) == ~ is_unique(Column(self.links, "company_id"))

\* self.links.duplicated().any()
DuplicateLinks(self) == duplicated_any(self.links)

\* the dicts validate() can build from the builder's tables
ValidationResults(self) ==
  { [ missing_companies      |-> mc,
      missing_facilities     |-> mf,
      orphan_companies       |-> oc,
      orphan_facilities      |-> of,
      duplicate_company_ids  |-> ~ is_unique(Column(self.companies, "company_id")),
      duplicate_facility_ids |-> ~ is_unique(Column(self.facilities, "facility_id")),
      duplicate_links        |-> DuplicateLinks(self) ] :
      mc \in Orders(MissingCompanies(self)), mf \in Orders(MissingFacilities(self)),
      oc \in Orders(OrphanCompanies(self)), of \in Orders(OrphanFacilities(self)) }

\* variant: the links of unknown organizations or sites are removed
validate_DropDangling(self) ==
  { [ self |-> [ self EXCEPT !.links =
                   SelectSeq(self.links,
                             LAMBDA l : /\ l.company_id \notin MissingCompanies(self)
                                        /\ l.facility_id \notin MissingFacilities(self)) ],
      ret  |-> Return(r) ] : r \in ValidationResults(self) }

\* RelationalBuilder.validate: the builder after the call and what it returned
validate(self) == { [ self |-> self, ret |-> Return(r) ] : r \in ValidationResults(self) }

\* variant: only the links between known organizations and sites are written
builder_save_ValidLinksOnly(self) ==
  [ companies  |-> self.companies,
    facilities |-> self.facilities,
    links      |-> SelectSeq(self.links,
                             LAMBDA l : /\ l.company_id \notin MissingCompanies(self)
                                        /\ l.facility_id \notin MissingFacilities(self)) ]

\* RelationalBuilder.save: the three tables written to the relational directory
builder_save(self) ==
  [ companies |-> self.companies, facilities |-> self.facilities, links |-> self.links ]

\* ------------------------------------------------ Phase 6: detection
\* variant: the rows are drawn without a seed
sample_Unseeded(table, n, permutation) ==
  { q \in [1..n -> 1..Len(table)] : \A a, b \in 1..n : q[a] = q[b] => a = b }

\* df.sample(n, random_state=42): the positions of the n rows drawn, which
\* are the first n of the permutation the seeded generator gives for len(df)
sample(table, n, permutation) == { SubSeq(permutation, 1, n) }

\* DuplicateDetector.load_data: the positions of the rows kept, or the raise
\* of DataFrame.sample for a negative number of rows
detector_load_data(table, size, permutation) ==
  LET n == IF size <= Len(table) THEN size ELSE Len(table)
  IN  IF n < 0 THEN { Raise("ValueError") }
      ELSE { Return(q) : q \in sample(table, n, permutation) }

\* .reset_index(drop=True): the rows drawn, numbered anew in drawing order
ResetIndex(table, positions) == [k \in 1..Len(positions) |-> table[positions[k]]]

\* self.df["description"].fillna("")
fillna(cell) == IF isna(cell) THEN "" ELSE cell.val

\* float(cosine_scores[i][j]), in ten-thousandths
Score(rows, cos, a, b) == cos[fillna(rows[a].description)][fillna(rows[b].description)]

\* round(score, 3), in thousandths (ties to even)
Round3(score) ==
  LET q == score \div 10
      r == score % 10
  IN  IF r < 5 THEN q ELSE IF r > 5 THEN q + 1 ELSE IF q % 2 = 0 THEN q ELSE q + 1

\* variant: only a score above the threshold is emitted
Emits_Strict(score, threshold) == score > threshold

\* `if score >= self.similarity_threshold`
Emits(score, threshold) == score >= threshold

\* variant: every position is compared with every position
InnerRange_All(a, n) == 1..n

\* `for j in range(i + 1, n)`, positions counted from 1
InnerRange(a, n) == (a + 1)..n

\* the elements of a set of integers in increasing order
RECURSIVE Ascending(_)
Ascending(S) ==
  IF S = {} THEN << >>
  ELSE LET m == CHOOSE x \in S : \A y \in S : x <= y
       IN  << m >> \o Ascending(S \ {m})

\* the pairs the two loops visit from outer position a on, in visiting order
RECURSIVE LoopPairs(_, _)
LoopPairs(a, n) ==
  IF a > n THEN << >>
  ELSE LET js == Ascending(InnerRange(a, n))
       IN  [k \in 1..Len(js) |-> << a, js[k] >>] \o LoopPairs(a + 1, n)

\* the dict appended for the pair of positions p
DuplicatePair(rows, cos, p) ==
  [ company_1_id   |-> rows[p[1]].company_id,
    company_1_name |-> rows[p[1]].company_name,
    company_2_id   |-> rows[p[2]].company_id,
    company_2_name |-> rows[p[2]].company_name,
    similarity     |-> Round3(Score(rows, cos, p[1], p[2])) ]

\* DuplicateDetector.detect_duplicates: the positions of the pairs emitted and
\* the list assigned to self.duplicates
detect_duplicates(rows, threshold, cos) ==
  LET emitted == SelectSeq(LoopPairs(1, Len(rows)),
                           LAMBDA p : Emits(Score(rows, cos, p[1], p[2]), threshold))
  IN  [ pairs      |-> emitted,
        duplicates |-> [k \in 1..Len(emitted) |-> DuplicatePair(rows, cos, emitted[k])] ]

\* ================================================================ inputs
\* sequences over S of length at most n
SeqsUpTo(S, n) == UNION { [1..k -> S] : k \in 0..n }

\* ---------------------------------------------------------------- inputs
NameAlphabet == { "s", "a", "S", " ", ".", "-", "_", "euro" }

NameInputs == { NaN } \cup { Str(s) : s \in SeqsUpTo(NameAlphabet, MaxNameLen) }

CountryAlphabet == { "m", "a", "r", "M", " " }

CountryInputs ==
  { NaN, Num(5) } \cup { Str(s) : s \in SeqsUpTo(CountryAlphabet, MaxCountryLen) }

DedupRecords ==
  [ company_name : DedupNames, country : { Morocco, Spain }, description : { "d1", "d2" } ]

\* rows of the raw file: the columns written by Phase 1 that process() reads
RawRow(name, country) ==
  [ company_name   |-> name,
    country        |-> country,
    industry       |-> "Textiles",
    description    |-> IF name = Str(AtlasTextileLtd) THEN "d1" ELSE "d2",
    website        |-> "w1",
    facility_count |-> 2 ]

RawRows ==
  { RawRow(n, Str(c)) : n \in RawNames, c \in { Morocco, Spain } }
  \cup { RawRow(Str(AtlasTextileLtd), Num(5)) }
  \cup { RawRow(Str(AtlasTextileLtd), Str(c)) : c \in { << "K", "a" >>, << "kelvin", "a" >> } }

IdCallArgs == { << AtlasTextile, Morocco >>, << AtlasTextile, Spain >> }

CompanyIds == { "A", "B", "C" }

LinkRows == [ company_id : { "A", "B", "X" }, facility_id : { "S1", "S2" } ]

\* tables of organization ids without repeats
CompanyTables ==
  { t \in SeqsUpTo(CompanyIds, MaxOrgs) : \A a, b \in 1..Len(t) : t[a] = t[b] => a = b }

FacilityTables == { << >>, << "S1" >>, << "S1", "S2" >> }

\* raw cells whose cleaned name and normalised country reach generate_company_id
IdAlphabet == { "a", "b", "c", "|" }

IdNameCells == { NaN } \cup { Str(s) : s \in SeqsUpTo(IdAlphabet, MaxIdLen) }

IdCountryCells == { NaN } \cup { Str(s) : s \in SeqsUpTo(IdAlphabet, MaxIdLen) }

\* the names clean_company_name returns and the countries normalize_country
\* returns for these cells
CleanNames == { CleanCompanyName(c) : c \in IdNameCells }

NormalCountries == { normalize_country(c).value : c \in IdCountryCells }

\* company identifiers handed to generate_facility_id
FacilityCallIds ==
  { generate_company_id(AtlasTextile, Morocco), generate_company_id(AtlasTextile, Spain) }

\* rows of the three files RelationalBuilder loads
BuilderCompanyRows == [ company_id : { "A", "B" } ]

BuilderFacilityRows == [ facility_id : { "S1", "S2" } ]

BuilderLinkRows == [ company_id : { "A", "B", "X" }, facility_id : { "S1", "S2" } ]

\* rows of the cleaned company file the detector reads; the third has an
\* empty description cell
DetectorRows ==
  { [ company_id |-> "A", company_name |-> "Atlas Textile", description |-> Str("d1") ],
    [ company_id |-> "B", company_name |-> "Atlas Tex", description |-> Str("d2") ],
    [ company_id |-> "C", company_name |-> "Nord Cuir", description |-> NaN ] }

\* the texts handed to the embedding provider
Descriptions == { "d1", "d2", "" }

\* cosine scores of an embedding provider, in ten-thousandths: symmetric, 1.0
\* for a text with itself
CosTable(s12, s13, s23) ==
  [ x \in Descriptions |-> [ y \in Descriptions |->
      IF x = y THEN 10000
      ELSE IF { x, y } = { "d1", "d2" } THEN s12
      ELSE IF { x, y } = { "d1", "" } THEN s13
      ELSE s23 ] ]

CosTables == { CosTable(8500, 8499, 8501), CosTable(8499, 8500, 8500) }

\* sample_size and similarity_threshold (ten-thousandths) given to __init__
SampleSizes == (-1)..MaxInputRows

Thresholds == { -1, 0, 8500, 10001 }

\* the permutations of the positions 1..n
PermutationsOf(n) == { q \in [1..n -> 1..n] : \A a, b \in 1..n : q[a] = q[b] => a = b }

\* rows of the cleaned company file FacilityProcessor reads: three
\* organizations, the facility_count cell a number or empty
FacilityOrgIds == { << "A" >>, << "B" >>, << "C" >> }

FacilityCountCells == { Num(n) : n \in 0..MaxIndex } \cup { NaN }

CompanyFileRow(id) ==
  [ company_id |-> id, company_name |-> << "N" >> \o id, country |-> Morocco ]

CompanyFileRows ==
  { CompanyFileRow(id) : id \in FacilityOrgIds }
  \cup { [ facility_count |-> c ] @@ CompanyFileRow(id) :
           id \in FacilityOrgIds, c \in FacilityCountCells }

\* tables with pairwise-distinct identifiers, the facility_count column
\* present in every row or in none
CompanyFiles ==
  { t \in SeqsUpTo(CompanyFileRows, MaxFacilityOrgs) :
      /\ \A a, b \in 1..Len(t) : t[a].company_id = t[b].company_id => a = b
      /\ \A a, b \in 1..Len(t) :
           ("facility_count" \in DOMAIN t[a]) <=> ("facility_count" \in DOMAIN t[b]) }

\* no two digest inputs collide, or those of the first site of A and of B do
CollisionChoices ==
  { {}, { { FacilityKey(<< "A" >>, 1), FacilityKey(<< "B" >>, 1) } } }

\* the timestamps of file names, of one width
Stamps == { str(Num(n)) : n \in 1..MaxStamp }

\* what Phases 2 and 3 write to data/processed, what Phase 4 writes to
\* data/relational
ProcessedNames ==
  { FileName(t, ts, Csv) :
      t \in { "companies_cleaned", "facilities_cleaned", "company_facilities" }, ts \in Stamps }
  \cup { FileName("companies_cleaned", ts, Json) : ts \in Stamps }

RelationalNames ==
  { FileName(t, ts, Csv) :
      t \in { "companies", "facilities", "company_facilities" }, ts \in Stamps }

Directory(name, exists, files) == [ name |-> name, exists |-> exists, files |-> files ]

Directories ==
  { Directory("data/processed", TRUE, fs) :
      fs \in { x \in SUBSET ProcessedNames : Cardinality(x) <= MaxDirFiles } }
  \cup { Directory("data/relational", TRUE, fs) :
      fs \in { x \in SUBSET RelationalNames : Cardinality(x) <= MaxDirFiles } }
  \cup { Directory(n, FALSE, {}) : n \in { "data/processed", "data/relational" } }

\* the raw files of the source feed: organization rows of the raw format
FeedRows ==
  { RawRow(n, Str(c)) : n \in RawNames, c \in { Morocco, Spain, << "N", "/", "a" >> } }
  \cup { RawRow(Str(AtlasTextileLtd), Num(5)) }

Feeds == SeqsUpTo(FeedRows, MaxFeedRows)

\* ------------------------------------------------------- idle components
PipelineIdle ==
  /\ driver = "main"
  /\ provider = [ model_available |-> TRUE, encode_ok |-> TRUE ]
  /\ position = 1
  /\ started = << >>
  /\ completed = {}
  /\ failed = 0
  /\ report = "none"
  /\ artifacts = [ k \in 1..7 |-> 0 ]
  /\ provider_failure = "none"
  /\ runs = 1

RecordsIdle ==
  /\ feed = << >>
  /\ deduped_records = None
  /\ cleaned_csv = None
  /\ sites_written = FALSE
  /\ relational_csv = None
  /\ final_csv = None
  /\ records_error = None

DiscoveryIdle ==
  /\ data_dir = None
  /\ load_stage = None
  /\ load_ret = None
  /\ outputs_written = FALSE

NameIdle == name_arg = NaN /\ name_ret = << >>

CountryIdle == country_arg = NaN /\ country_ret = None

DedupIdle ==
  /\ records = << >>
  /\ i = 0
  /\ unique_companies = << >>
  /\ seen_keys = << >>
  /\ kept = << >>
  /\ dedup_ret = None

CleanerIdle ==
  /\ raw_file = << >>
  /\ df = None
  /\ cleaned_df = None
  /\ p2_error = None
  /\ p2_saved = None
  /\ id_calls = << >>

ExporterIdle ==
  /\ rel_files = [companies |-> << >>, facilities |-> << >>, links |-> << >>]
  /\ companies_df = None
  /\ facilities_df = None
  /\ links_df = None
  /\ summary_stats = EmptyDict

IdIdle == id_call = None /\ md5_collisions = {}

FacilityIdle ==
  /\ company_file = << >>
  /\ company_df = None
  /\ fac_facilities_df = None
  /\ link_df = None
  /\ fac_error = None
  /\ fac_saved = FALSE

BuilderIdle ==
  /\ processed_files = [companies |-> << >>, facilities |-> << >>, links |-> << >>]
  /\ processed_headerless = {}
  /\ builder_error = None
  /\ builder_companies = None
  /\ builder_facilities = None
  /\ builder_links = None
  /\ validation = None
  /\ relational_saved = None

DetectorIdle ==
  /\ input_table = << >>
  /\ sample_size = 0
  /\ similarity_threshold = 0
  /\ random_state = << >>
  /\ cos_sim = << >>
  /\ det_df = None
  /\ det_sample = << >>
  /\ duplicates = << >>
  /\ det_pairs = None
  /\ det_error = None
  /\ det_saved = None
  /\ det_runs = << >>

\* ------------------------------------------- clean_company_name, applied
\* a call of clean_company_name: on the input cell, then on the text the
\* call before returned
CleanName ==
  /\ Len(name_ret) < 2
  /\ name_ret' = Append(name_ret,
                        clean_company_name(IF name_ret = << >> THEN name_arg
                                           ELSE Str(name_ret[Len(name_ret)])))
  /\ UNCHANGED << name_arg, countryVars, dedupVars, cleanerVars, exporterVars,
                  idVars, builderVars, detectorVars,
                  facilityVars,
                  discoveryVars,
                  recordVars,
                  pipelineVars >>

InitName ==
  /\ name_arg \in NameInputs
  /\ name_ret = << >>
  /\ CountryIdle /\ DedupIdle /\ CleanerIdle /\ ExporterIdle
  /\ IdIdle /\ BuilderIdle /\ DetectorIdle
  /\ FacilityIdle
  /\ DiscoveryIdle
  /\ RecordsIdle
  /\ PipelineIdle

SpecName == InitName /\ [][CleanName]_vars

\* -------------------------------------------- normalize_country, applied
NormalizeCountry ==
  /\ country_ret = None
  /\ country_ret' = normalize_country(country_arg)
  /\ UNCHANGED << country_arg, nameVars, dedupVars, cleanerVars, exporterVars,
                  idVars, builderVars, detectorVars,
                  facilityVars,
                  discoveryVars,
                  recordVars,
                  pipelineVars >>

InitCountry ==
  /\ country_arg \in CountryInputs
  /\ country_ret = None
  /\ NameIdle /\ DedupIdle /\ CleanerIdle /\ ExporterIdle
  /\ IdIdle /\ BuilderIdle /\ DetectorIdle
  /\ FacilityIdle
  /\ DiscoveryIdle
  /\ RecordsIdle
  /\ PipelineIdle

SpecCountry == InitCountry /\ [][NormalizeCountry]_vars

\* ------------------------------------- deduplicate_companies, step by step
\* one iteration of `for record in records`
DedupStep ==
  /\ dedup_ret = None
  /\ i < Len(records)
  /\ LET st == DedupBody([unique_companies |-> unique_companies,
                          seen_keys |-> seen_keys], records[i + 1])
     IN  /\ unique_companies' = st.unique_companies
         /\ seen_keys' = st.seen_keys
         /\ kept' = IF Len(st.unique_companies) > Len(unique_companies)
                    THEN Append(kept, i + 1) ELSE kept
  /\ i' = i + 1
  /\ UNCHANGED << records, dedup_ret, nameVars, countryVars, cleanerVars, exporterVars,
                  idVars, builderVars, detectorVars,
                  facilityVars,
                  discoveryVars,
                  recordVars,
                  pipelineVars >>

\* `return unique_companies`
DedupReturn ==
  /\ dedup_ret = None
  /\ i = Len(records)
  /\ dedup_ret' = List(unique_companies)
  /\ UNCHANGED << records, i, unique_companies, seen_keys, kept,
                  nameVars, countryVars, cleanerVars, exporterVars,
                  idVars, builderVars, detectorVars,
                  facilityVars,
                  discoveryVars,
                  recordVars,
                  pipelineVars >>

InitDedup ==
  /\ records \in SeqsUpTo(DedupRecords, MaxRecords)
  /\ i = 0
  /\ unique_companies = << >>
  /\ seen_keys = << >>
  /\ kept = << >>
  /\ dedup_ret = None
  /\ NameIdle /\ CountryIdle /\ CleanerIdle /\ ExporterIdle
  /\ IdIdle /\ BuilderIdle /\ DetectorIdle
  /\ FacilityIdle
  /\ DiscoveryIdle
  /\ RecordsIdle
  /\ PipelineIdle

NextDedup == DedupStep \/ DedupReturn

SpecDedup == InitDedup /\ [][NextDedup]_vars

\* ------------------------------------------------------ CompanyCleaner
\* CompanyCleaner.process: load_data, then the rows loop and deduplication
Process ==
  /\ df = None
  /\ df' = DataFrame(raw_file)
  /\ \E r \in { process(raw_file) } :
       IF r.kind = "return"
       THEN cleaned_df' = DataFrame(r.value) /\ UNCHANGED p2_error
       ELSE p2_error' = r /\ UNCHANGED cleaned_df
  /\ UNCHANGED << raw_file, p2_saved, id_calls,
                  nameVars, countryVars, dedupVars, exporterVars,
                  idVars, builderVars, detectorVars,
                  facilityVars,
                  discoveryVars,
                  recordVars,
                  pipelineVars >>

\* CompanyCleaner.save, which run() calls after process() returned
Save ==
  /\ cleaned_df # None
  /\ p2_saved = None
  /\ p2_saved' = cleaned_df
  /\ UNCHANGED << raw_file, df, cleaned_df, p2_error, id_calls,
                  nameVars, countryVars, dedupVars, exporterVars,
                  idVars, builderVars, detectorVars,
                  facilityVars,
                  discoveryVars,
                  recordVars,
                  pipelineVars >>

\* a call of generate_company_id, at any moment of the cleaner's life
GenerateCompanyId(name, country) ==
  /\ Len(id_calls) < MaxCalls
  /\ id_calls' = Append(id_calls, [ name |-> name, country |-> country,
                                    id |-> generate_company_id(name, country) ])
  /\ UNCHANGED << raw_file, df, cleaned_df, p2_error, p2_saved,
                  nameVars, countryVars, dedupVars, exporterVars,
                  idVars, builderVars, detectorVars,
                  facilityVars,
                  discoveryVars,
                  recordVars,
                  pipelineVars >>

InitCleaner ==
  /\ raw_file \in SeqsUpTo(RawRows, MaxRows)
  /\ df = None
  /\ cleaned_df = None
  /\ p2_error = None
  /\ p2_saved = None
  /\ id_calls = << >>
  /\ NameIdle /\ CountryIdle /\ DedupIdle /\ ExporterIdle
  /\ IdIdle /\ BuilderIdle /\ DetectorIdle
  /\ FacilityIdle
  /\ DiscoveryIdle
  /\ RecordsIdle
  /\ PipelineIdle

NextCleaner ==
  \/ Process
  \/ Save
  \/ \E a \in IdCallArgs : GenerateCompanyId(a[1], a[2])

SpecCleaner == InitCleaner /\ [][NextCleaner]_vars

\* ------------------------------------------------------- FinalExporter
\* FinalExporter.load_data: the three relational tables
ExporterLoadData ==
  /\ companies_df = None
  /\ companies_df' = DataFrame(rel_files.companies)
  /\ facilities_df' = DataFrame(rel_files.facilities)
  /\ links_df' = DataFrame(rel_files.links)
  /\ UNCHANGED << rel_files, summary_stats,
                  nameVars, countryVars, dedupVars, cleanerVars,
                  idVars, builderVars, detectorVars,
                  facilityVars,
                  discoveryVars,
                  recordVars,
                  pipelineVars >>

\* FinalExporter.compute_summary_stats
ComputeSummaryStats ==
  /\ companies_df # None
  /\ summary_stats = EmptyDict
  /\ summary_stats' = compute_summary_stats(companies_df.rows, facilities_df.rows,
                                            links_df.rows)
  /\ UNCHANGED << rel_files, companies_df, facilities_df, links_df,
                  nameVars, countryVars, dedupVars, cleanerVars,
                  idVars, builderVars, detectorVars,
                  facilityVars,
                  discoveryVars,
                  recordVars,
                  pipelineVars >>

InitExporter ==
  /\ rel_files \in [ companies : CompanyTables, facilities : FacilityTables,
                     links : SeqsUpTo(LinkRows, MaxLinks) ]
  /\ companies_df = None
  /\ facilities_df = None
  /\ links_df = None
  /\ summary_stats = EmptyDict
  /\ NameIdle /\ CountryIdle /\ DedupIdle /\ CleanerIdle
  /\ IdIdle /\ BuilderIdle /\ DetectorIdle
  /\ FacilityIdle
  /\ DiscoveryIdle
  /\ RecordsIdle
  /\ PipelineIdle

NextExporter == ExporterLoadData \/ ComputeSummaryStats

SpecExporter == InitExporter /\ [][NextExporter]_vars

\* ------------------------------------------------- identifiers, applied
\* a call of CompanyCleaner.generate_company_id on a cleaned name and a
\* normalised country
CallGenerateCompanyId ==
  /\ id_call = None
  /\ \E name \in CleanNames, country \in NormalCountries :
       id_call' = [ fn   |-> "generate_company_id",
                    args |-> << name, country >>,
                    key  |-> CompanyKey(name, country),
                    id   |-> generate_company_id(name, country) ]
  /\ UNCHANGED << md5_collisions,
                  nameVars, countryVars, dedupVars, cleanerVars, exporterVars,
                  builderVars, detectorVars, facilityVars,
                  discoveryVars,
                  recordVars,
                  pipelineVars >>

\* a call of FacilityProcessor.generate_facility_id on a company identifier
\* and the index of `for i in range(1, facility_count + 1)`
CallGenerateFacilityId ==
  /\ id_call = None
  /\ \E company_id \in FacilityCallIds, index \in 1..MaxIndex :
       id_call' = [ fn   |-> "generate_facility_id",
                    args |-> << company_id, index >>,
                    key  |-> FacilityKey(company_id, index),
                    id   |-> generate_facility_id(company_id, index) ]
  /\ UNCHANGED << md5_collisions,
                  nameVars, countryVars, dedupVars, cleanerVars, exporterVars,
                  builderVars, detectorVars, facilityVars,
                  discoveryVars,
                  recordVars,
                  pipelineVars >>

InitIds ==
  /\ id_call = None
  /\ md5_collisions = {}
  /\ NameIdle /\ CountryIdle /\ DedupIdle /\ CleanerIdle /\ ExporterIdle
  /\ BuilderIdle /\ DetectorIdle
  /\ FacilityIdle
  /\ DiscoveryIdle
  /\ RecordsIdle
  /\ PipelineIdle

NextIds == CallGenerateCompanyId \/ CallGenerateFacilityId

SpecIds == InitIds /\ [][NextIds]_vars

\* --------------------------------------------------- RelationalBuilder
\* the builder object: its three tables
BuilderSelf ==
  [ companies  |-> builder_companies.rows,
    facilities |-> builder_facilities.rows,
    links      |-> builder_links.rows ]

\* RelationalBuilder.load_data
BuilderLoadData ==
  /\ builder_companies = None
  /\ builder_error = None
  /\ LET r == read_csv_all(processed_files, processed_headerless)
     IN  IF r.kind = "return"
         THEN /\ builder_companies' = DataFrame(r.value.companies)
              /\ builder_facilities' = DataFrame(r.value.facilities)
              /\ builder_links' = DataFrame(r.value.links)
              /\ UNCHANGED builder_error
         ELSE /\ builder_error' = r
              /\ UNCHANGED << builder_companies, builder_facilities, builder_links >>
  /\ UNCHANGED << processed_files, processed_headerless, validation, relational_saved,
                  nameVars, countryVars, dedupVars, cleanerVars, exporterVars,
                  idVars, detectorVars,
                  facilityVars,
                  discoveryVars,
                  recordVars,
                  pipelineVars >>

\* `validation = self.validate()` of run()
Validate ==
  /\ builder_companies # None
  /\ validation = None
  /\ \E out \in validate(BuilderSelf) :
       /\ out.ret.kind = "return"
       /\ validation' = out.ret.value
       /\ builder_companies' = DataFrame(out.self.companies)
       /\ builder_facilities' = DataFrame(out.self.facilities)
       /\ builder_links' = DataFrame(out.self.links)
  /\ UNCHANGED << processed_files, processed_headerless, relational_saved, builder_error,
                  nameVars, countryVars, dedupVars, cleanerVars, exporterVars,
                  idVars, detectorVars,
                  facilityVars,
                  discoveryVars,
                  recordVars,
                  pipelineVars >>

\* `self.save()` of run(), after validate() returned
BuilderSave ==
  /\ validation # None
  /\ relational_saved = None
  /\ relational_saved' = builder_save(BuilderSelf)
  /\ UNCHANGED << processed_files, processed_headerless, builder_companies,
                  builder_facilities, builder_links, validation, builder_error,
                  nameVars, countryVars, dedupVars, cleanerVars, exporterVars,
                  idVars, detectorVars,
                  facilityVars,
                  discoveryVars,
                  recordVars,
                  pipelineVars >>

InitBuilder ==
  /\ processed_files \in [ companies  : SeqsUpTo(BuilderCompanyRows, MaxBuilderRows),
                           facilities : SeqsUpTo(BuilderFacilityRows, MaxBuilderRows),
                           links      : SeqsUpTo(BuilderLinkRows, MaxBuilderRows) ]
  /\ processed_headerless = {}
  /\ builder_companies = None
  /\ builder_facilities = None
  /\ builder_links = None
  /\ validation = None
  /\ relational_saved = None
  /\ builder_error = None
  /\ NameIdle /\ CountryIdle /\ DedupIdle /\ CleanerIdle /\ ExporterIdle
  /\ IdIdle /\ DetectorIdle
  /\ FacilityIdle
  /\ DiscoveryIdle
  /\ RecordsIdle
  /\ PipelineIdle

NextBuilder == BuilderLoadData \/ Validate \/ BuilderSave

SpecBuilder == InitBuilder /\ [][NextBuilder]_vars

\* --------------------------------------------------- DuplicateDetector
\* DuplicateDetector.load_data
DetectorLoadData ==
  /\ det_df = None
  /\ det_error = None
  /\ \E r \in detector_load_data(input_table, sample_size, random_state) :
       IF r.kind = "return"
       THEN /\ det_df' = DataFrame(ResetIndex(input_table, r.value))
            /\ det_sample' = r.value
            /\ UNCHANGED det_error
       ELSE /\ det_error' = r
            /\ UNCHANGED << det_df, det_sample >>
  /\ UNCHANGED << input_table, sample_size, similarity_threshold, random_state,
                  cos_sim, duplicates, det_pairs, det_saved, det_runs,
                  nameVars, countryVars, dedupVars, cleanerVars, exporterVars,
                  idVars, builderVars,
                  facilityVars,
                  discoveryVars,
                  recordVars,
                  pipelineVars >>

\* DuplicateDetector.detect_duplicates
DetectDuplicates ==
  /\ det_df # None
  /\ det_pairs = None
  /\ LET r == detect_duplicates(det_df.rows, similarity_threshold, cos_sim)
     IN  /\ duplicates' = r.duplicates
         /\ det_pairs' = List(r.pairs)
  /\ UNCHANGED << input_table, sample_size, similarity_threshold, random_state,
                  cos_sim, det_df, det_sample, det_error, det_saved, det_runs,
                  nameVars, countryVars, dedupVars, cleanerVars, exporterVars,
                  idVars, builderVars,
                  facilityVars,
                  discoveryVars,
                  recordVars,
                  pipelineVars >>

\* DuplicateDetector.save_results: the report file of the run
SaveResults ==
  /\ det_pairs # None
  /\ det_saved = None
  /\ det_saved' = DataFrame(duplicates)
  /\ det_runs' = Append(det_runs, [ sample |-> det_df.rows, duplicates |-> duplicates ])
  /\ UNCHANGED << input_table, sample_size, similarity_threshold, random_state,
                  cos_sim, det_df, det_sample, duplicates, det_pairs, det_error,
                  nameVars, countryVars, dedupVars, cleanerVars, exporterVars,
                  idVars, builderVars,
                  facilityVars,
                  discoveryVars,
                  recordVars,
                  pipelineVars >>

\* a second DuplicateDetector(...) with the same arguments, for a second run
\* over the same file
NewDetector ==
  /\ det_saved # None
  /\ Len(det_runs) < 2
  /\ det_df' = None
  /\ det_sample' = << >>
  /\ duplicates' = << >>
  /\ det_pairs' = None
  /\ det_saved' = None
  /\ UNCHANGED << input_table, sample_size, similarity_threshold, random_state,
                  cos_sim, det_error, det_runs,
                  nameVars, countryVars, dedupVars, cleanerVars, exporterVars,
                  idVars, builderVars,
                  facilityVars,
                  discoveryVars,
                  recordVars,
                  pipelineVars >>

InitDetector ==
  /\ input_table \in SeqsUpTo(DetectorRows, MaxInputRows)
  /\ sample_size \in SampleSizes
  /\ similarity_threshold \in Thresholds
  /\ random_state \in PermutationsOf(Len(input_table))
  /\ cos_sim \in CosTables
  /\ det_df = None
  /\ det_sample = << >>
  /\ duplicates = << >>
  /\ det_pairs = None
  /\ det_error = None
  /\ det_saved = None
  /\ det_runs = << >>
  /\ NameIdle /\ CountryIdle /\ DedupIdle /\ CleanerIdle /\ ExporterIdle
  /\ IdIdle /\ BuilderIdle
  /\ FacilityIdle
  /\ DiscoveryIdle
  /\ RecordsIdle
  /\ PipelineIdle

NextDetector == DetectorLoadData \/ DetectDuplicates \/ SaveResults \/ NewDetector

SpecDetector == InitDetector /\ [][NextDetector]_vars

\* --------------------------------------------------- FacilityProcessor
\* FacilityProcessor.process: load_companies, then the rows loop
FacilityProcess ==
  /\ company_df = None
  /\ fac_error = None
  /\ company_df' = DataFrame(company_file)
  /\ \E r \in { facility_process(company_file) } :
       IF r.kind = "return"
       THEN /\ fac_facilities_df' = DataFrame(r.value.facilities)
            /\ link_df' = DataFrame(r.value.links)
            /\ UNCHANGED fac_error
       ELSE /\ fac_error' = r
            /\ UNCHANGED << fac_facilities_df, link_df >>
  /\ UNCHANGED << company_file, fac_saved,
                  nameVars, countryVars, dedupVars, cleanerVars, exporterVars,
                  idVars, builderVars, detectorVars,
                  discoveryVars,
                  recordVars,
                  pipelineVars >>

\* FacilityProcessor.save, which run() calls after process() returned: the
\* facility and link files join the company file in the processed directory
FacilitySave ==
  /\ fac_facilities_df # None
  /\ ~fac_saved
  /\ fac_saved' = TRUE
  /\ processed_files' = [ companies  |-> company_df.rows,
                          facilities |-> fac_facilities_df.rows,
                          links      |-> link_df.rows ]
  /\ processed_headerless' = WrittenHeaderless([ facilities |-> fac_facilities_df.rows,
                                                 links      |-> link_df.rows ])
  /\ UNCHANGED << builder_companies, builder_facilities, builder_links,
                  validation, relational_saved, builder_error,
                  company_file, company_df, fac_facilities_df, link_df, fac_error,
                  nameVars, countryVars, dedupVars, cleanerVars, exporterVars,
                  idVars, detectorVars,
                  discoveryVars,
                  recordVars,
                  pipelineVars >>

InitFacility ==
  /\ company_file \in CompanyFiles
  /\ md5_collisions \in CollisionChoices
  /\ id_call = None
  /\ company_df = None
  /\ fac_facilities_df = None
  /\ link_df = None
  /\ fac_error = None
  /\ fac_saved = FALSE
  /\ NameIdle /\ CountryIdle /\ DedupIdle /\ CleanerIdle /\ ExporterIdle
  /\ BuilderIdle /\ DetectorIdle /\ DiscoveryIdle
  /\ RecordsIdle
  /\ PipelineIdle

\* Phase 3, then Phase 4 on what Phase 3 saved
NextFacility ==
  \/ FacilityProcess
  \/ FacilitySave
  \/ (fac_saved /\ BuilderLoadData)
  \/ Validate
  \/ BuilderSave

SpecFacility == InitFacility /\ [][NextFacility]_vars

\* ------------------------------------------------------ input discovery
\* run() of a stage on the directory it reads: the load, and when the load
\* returned, the rest of run(), which writes the stage's outputs
RunStage(stage, dir_name, ret) ==
  /\ load_ret = None
  /\ data_dir.name = dir_name
  /\ load_stage' = stage
  /\ load_ret' = ret
  /\ outputs_written' = (ret.kind = "return")
  /\ UNCHANGED << data_dir,
                  nameVars, countryVars, dedupVars, cleanerVars, exporterVars,
                  idVars, builderVars, detectorVars, facilityVars,
                  recordVars,
                  pipelineVars >>

RunPhase3 == RunStage(3, "data/processed", load_companies(data_dir))

RunPhase4 == RunStage(4, "data/processed", builder_load_data(data_dir))

RunPhase5 == RunStage(5, "data/relational", load_relational_data(data_dir))

RunPhase6 == RunStage(6, "data/processed", detector_input_file(data_dir))

RunPhase7 == RunStage(7, "data/relational", exporter_load_data(data_dir))

InitDiscovery ==
  /\ data_dir \in Directories
  /\ load_stage = None
  /\ load_ret = None
  /\ outputs_written = FALSE
  /\ NameIdle /\ CountryIdle /\ DedupIdle /\ CleanerIdle /\ ExporterIdle
  /\ IdIdle /\ BuilderIdle /\ DetectorIdle /\ FacilityIdle /\ RecordsIdle
  /\ PipelineIdle

NextDiscovery == RunPhase3 \/ RunPhase4 \/ RunPhase5 \/ RunPhase6 \/ RunPhase7

SpecDiscovery == InitDiscovery /\ [][NextDiscovery]_vars

\* ------------------------------------------- organization records
\* CompanyCleaner.run: process, then save
RecordsPhase2 ==
  /\ deduped_records = None
  /\ records_error = None
  /\ LET r == process(feed)
     IN  IF r.kind = "return"
         THEN /\ deduped_records' = List(r.value)
              /\ cleaned_csv' = to_csv(FrameOfRecords(r.value))
              /\ UNCHANGED records_error
         ELSE /\ records_error' = r
              /\ UNCHANGED << deduped_records, cleaned_csv >>
  /\ UNCHANGED << feed, sites_written, relational_csv, final_csv,
                  nameVars, countryVars, dedupVars, cleanerVars, exporterVars,
                  idVars, builderVars, detectorVars, facilityVars, discoveryVars,
                  pipelineVars >>

\* FacilityProcessor.run: reads the cleaned company file, writes the site and
\* the link file
RecordsPhase3 ==
  /\ cleaned_csv # None
  /\ ~ sites_written
  /\ sites_written' = TRUE
  /\ UNCHANGED << feed, deduped_records, cleaned_csv, relational_csv, final_csv,
                  records_error,
                  nameVars, countryVars, dedupVars, cleanerVars, exporterVars,
                  idVars, builderVars, detectorVars, facilityVars, discoveryVars,
                  pipelineVars >>

\* RelationalBuilder.run: load_data, validate (which changes no table), save
RecordsPhase4 ==
  /\ sites_written
  /\ relational_csv = None
  /\ relational_csv' = to_csv(read_csv(cleaned_csv))
  /\ UNCHANGED << feed, deduped_records, cleaned_csv, sites_written, final_csv,
                  records_error,
                  nameVars, countryVars, dedupVars, cleanerVars, exporterVars,
                  idVars, builderVars, detectorVars, facilityVars, discoveryVars,
                  pipelineVars >>

\* FinalExporter.run: load_data, export_final
RecordsPhase7 ==
  /\ relational_csv # None
  /\ final_csv = None
  /\ final_csv' = to_csv(read_csv(relational_csv))
  /\ UNCHANGED << feed, deduped_records, cleaned_csv, sites_written, relational_csv,
                  records_error,
                  nameVars, countryVars, dedupVars, cleanerVars, exporterVars,
                  idVars, builderVars, detectorVars, facilityVars, discoveryVars,
                  pipelineVars >>

InitRecords ==
  /\ feed \in Feeds
  /\ deduped_records = None
  /\ cleaned_csv = None
  /\ sites_written = FALSE
  /\ relational_csv = None
  /\ final_csv = None
  /\ records_error = None
  /\ NameIdle /\ CountryIdle /\ DedupIdle /\ CleanerIdle /\ ExporterIdle
  /\ IdIdle /\ BuilderIdle /\ DetectorIdle /\ FacilityIdle /\ DiscoveryIdle
  /\ PipelineIdle

NextRecords == RecordsPhase2 \/ RecordsPhase3 \/ RecordsPhase4 \/ RecordsPhase7

SpecRecords == InitRecords /\ [][NextRecords]_vars

\* --------------------------------------------------- pipeline drivers
\* one phase of a pipeline run: run() returns after writing its artifacts, or
\* raises, which the driver reports (`except Exception` of main(), the False
\* returned by run_pipeline_phase to the loop)
RunPhase(k, raises, provider_fault) ==
  /\ position \in 1..7
  /\ PhaseAt(position) = k
  /\ started' = Append(started, k)
  /\ position' = NextPosition(~ raises, position)
  /\ IF raises
     THEN /\ failed' = k
          /\ report' = "failure"
          /\ provider_failure' = provider_fault
          /\ UNCHANGED << completed, artifacts >>
     ELSE /\ completed' = completed \cup { k }
          /\ artifacts' = [ artifacts EXCEPT ![k] = @ + 1 ]
          /\ UNCHANGED << failed, report, provider_failure >>
  /\ UNCHANGED << driver, provider, runs,
                  nameVars, countryVars, dedupVars, cleanerVars, exporterVars,
                  idVars, builderVars, detectorVars, facilityVars, discoveryVars,
                  recordVars >>

PipelinePhase1 == \E raises \in BOOLEAN : RunPhase(1, raises, "none")

PipelinePhase2 == \E raises \in BOOLEAN : RunPhase(2, raises, "none")

PipelinePhase3 == \E raises \in BOOLEAN : RunPhase(3, raises, "none")

PipelinePhase4 == \E raises \in BOOLEAN : RunPhase(4, raises, "none")

PipelinePhase5 == \E raises \in BOOLEAN : RunPhase(5, raises, "none")

\* Phase 6 raises when the provider fails, and may raise for another reason
PipelinePhase6 ==
  LET fault == DetectorProviderFailure(provider)
  IN  \E raises \in BOOLEAN :
        (fault # "none" => raises) /\ RunPhase(6, raises, fault)

PipelinePhase7 == \E raises \in BOOLEAN : RunPhase(7, raises, "none")

\* the success message after the last phase: the last statement of the try
\* block of main(), the else clause of the loop of the dashboard
ReportSuccess ==
  /\ position = 8
  /\ report' = "success"
  /\ position' = Ended
  /\ UNCHANGED << driver, provider, started, completed, failed, artifacts,
                  provider_failure, runs,
                  nameVars, countryVars, dedupVars, cleanerVars, exporterVars,
                  idVars, builderVars, detectorVars, facilityVars, discoveryVars,
                  recordVars >>

\* the next pipeline run: main() called again, the button pressed again; the
\* artifacts of the runs before stay in the data directories
NewRun ==
  /\ position = Ended
  /\ runs < MaxRuns
  /\ runs' = runs + 1
  /\ driver' \in { "main", "dashboard" }
  /\ provider' \in [ model_available : BOOLEAN, encode_ok : BOOLEAN ]
  /\ position' = 1
  /\ started' = << >>
  /\ completed' = {}
  /\ failed' = 0
  /\ report' = "none"
  /\ provider_failure' = "none"
  /\ UNCHANGED << artifacts,
                  nameVars, countryVars, dedupVars, cleanerVars, exporterVars,
                  idVars, builderVars, detectorVars, facilityVars, discoveryVars,
                  recordVars >>

InitPipeline ==
  /\ driver \in { "main", "dashboard" }
  /\ provider \in [ model_available : BOOLEAN, encode_ok : BOOLEAN ]
  /\ position = 1
  /\ started = << >>
  /\ completed = {}
  /\ failed = 0
  /\ report = "none"
  /\ artifacts = [ k \in 1..7 |-> 0 ]
  /\ provider_failure = "none"
  /\ runs = 1
  /\ NameIdle /\ CountryIdle /\ DedupIdle /\ CleanerIdle /\ ExporterIdle
  /\ IdIdle /\ BuilderIdle /\ DetectorIdle /\ FacilityIdle /\ DiscoveryIdle
  /\ RecordsIdle

NextPipeline ==
  \/ PipelinePhase1 \/ PipelinePhase2 \/ PipelinePhase3 \/ PipelinePhase4
  \/ PipelinePhase5 \/ PipelinePhase6 \/ PipelinePhase7
  \/ ReportSuccess
  \/ NewRun

SpecPipeline == InitPipeline /\ [][NextPipeline]_vars

\* ================================================================== claims
\* reversed(s)
Reverse(s) == [k \in 1..Len(s) |-> s[Len(s) + 1 - k]]

NearDuplicates(r1, r2) ==
  /\ r1.country = r2.country
  /\ ScoreAbove(token_sort_ratio(r1.company_name, r2.company_name), DedupThreshold)

\* C1: compute_summary_stats reports, as average sites per organization, the
\* number of links divided by the number of organizations of the organization
\* table (to 2 decimals), so that an organization without links counts with 0.
C1_MeanOverAllOrganizations ==
  (summary_stats # EmptyDict /\ Len(companies_df.rows) > 0) =>
    summary_stats.average_facilities_per_company
      = Round2([nan |-> FALSE, num |-> Len(links_df.rows),
                den |-> Len(companies_df.rows)])

\* C2: the list deduplicate_companies returns holds no two records, at
\* different positions, of the same country whose names score above 90.
C2_NoTwoRetainedNearDuplicates ==
  dedup_ret # None =>
    \A a, b \in 1..Len(dedup_ret.items) :
      a # b => ~NearDuplicates(dedup_ret.items[a], dedup_ret.items[b])

C2_Witness ==
  /\ dedup_ret # None
  /\ Len(records) = 3
  /\ Len(dedup_ret.items) = 2
  /\ dedup_ret.items[1].country = dedup_ret.items[2].country
  /\ ScoreEquals(token_sort_ratio(dedup_ret.items[1].company_name,
                                  dedup_ret.items[2].company_name), DedupThreshold)

\* C3: the returned list is the input records at the accepted positions,
\* unchanged and in input order; the first input record is accepted; and every
\* input record that was dropped is a near-duplicate of a record accepted at an
\* earlier position.
C3_EarliestRepresentativeSubsequence ==
  dedup_ret # None =>
    LET out == dedup_ret.items
    IN  /\ Len(out) = Len(kept)
        /\ \A k \in 1..Len(kept) :
             kept[k] \in 1..Len(records) /\ out[k] = records[kept[k]]
        /\ \A k \in 1..(Len(kept) - 1) : kept[k] < kept[k + 1]
        /\ records # << >> => (out # << >> /\ kept[1] = 1 /\ out[1] = records[1])
        /\ \A j \in 1..Len(records) :
             j \notin Range(kept) =>
               \E k \in Range(kept) : k < j /\ NearDuplicates(records[j], records[k])

C3_Witness ==
  /\ dedup_ret # None
  /\ kept = << 1, 3 >>
  /\ records[2].description # records[1].description
  /\ records[2].company_name # records[1].company_name

\* C4: at every point of the pass, a consumed candidate was dropped exactly
\* when a record accepted before it has the same country and a score strictly
\* above 90; the keys compared against are those of the accepted records.
C4_DroppedIffEarlierAcceptedMatch ==
  /\ Len(seen_keys) = Len(kept)
  /\ \A k \in 1..Len(kept) :
       seen_keys[k] = [company_name |-> records[kept[k]].company_name,
                       country |-> records[kept[k]].country]
  /\ \A j \in 1..i :
       (j \notin Range(kept)) <=>
         (\E k \in Range(kept) : k < j /\ NearDuplicates(records[j], records[k]))

C4_Witness ==
  /\ i = 3
  /\ kept = << 1, 2 >>
  /\ records[1].country = records[2].country
  /\ ScoreEquals(token_sort_ratio(records[1].company_name, records[2].company_name),
                 DedupThreshold)

\* the raw records of the example, in order
AtlasExample ==
  << RawRow(Str(AtlasTextileLtd), Str(Morocco)),
     RawRow(Str(AtlasTextileLimited), Str(Morocco)),
     RawRow(Str(AtlasTextileLtd), Str(Spain)) >>

\* C5: process() on ("Atlas Textile Ltd","Morocco"), ("Atlas Textile
\* Limited","Morocco"), ("Atlas Textile Ltd","Spain") retains exactly two
\* records: the first Morocco record and the Spain record.
C5_AtlasExampleRetainsTwo ==
  (raw_file = AtlasExample /\ df # None) =>
    /\ cleaned_df # None
    /\ Len(cleaned_df.rows) = 2
    /\ cleaned_df.rows[1].company_name = AtlasTextile
    /\ cleaned_df.rows[1].country = Morocco
    /\ cleaned_df.rows[1].description = AtlasExample[1].description
    /\ cleaned_df.rows[2].company_name = AtlasTextile
    /\ cleaned_df.rows[2].country = Spain
    /\ cleaned_df.rows[2].description = AtlasExample[3].description

C5_Witness ==
  /\ raw_file = AtlasExample
  /\ cleaned_df # None
  /\ AtlasExample[2].description # AtlasExample[1].description

\* every two records at different positions are near-duplicates
IsCluster(recs) ==
  /\ recs # << >>
  /\ \A a, b \in 1..Len(recs) : a # b => NearDuplicates(recs[a], recs[b])

\* C6: of a cluster of pairwise near-duplicates exactly one record is
\* retained, the first of the order given; of the reversed cluster, the
\* former last one.
C6_ClusterKeepsFirstOfGivenOrder ==
  (dedup_ret # None /\ IsCluster(records)) =>
    /\ dedup_ret.items = << records[1] >>
    /\ deduplicate_companies(Reverse(records)) = << records[Len(records)] >>

C6_Witness ==
  /\ dedup_ret # None
  /\ IsCluster(records)
  /\ Len(records) = 3
  /\ records[1] # records[3]
  /\ records[1].company_name # records[2].company_name

\* C7: clean_company_name applied to its own result returns that result.
C7_CleanNameIdempotent ==
  Len(name_ret) >= 2 => name_ret[2] = name_ret[1]

C7_Witness ==
  /\ Len(name_ret) = 2
  /\ name_arg = Str(<< "S", "a", ".", "s" >>)
  /\ name_ret[1] = << "S" >>

\* C8: normalize_country returns "Unknown" for a missing value, the empty
\* string and a whitespace-only string.
C8_EmptyCountryIsUnknown ==
  (country_ret # None /\ (isna(country_arg) \/ (country_arg.type = "str"
                                               /\ strip(country_arg.val) = << >>))) =>
    country_ret = Return(Unknown)

\* C9: normalize_country returns a string, and raises nothing, for every cell
\* of the country column: missing, text in the table, text not in it, a number.
C9_NormalizeCountryNeverRaises ==
  country_ret # None => country_ret.kind = "return"

IsUpperHex(c) == c.case = "upper"

IsIdentifier(id, prefix) ==
  /\ Len(id) = 14
  /\ SubSeq(id, 1, 4) = prefix
  /\ \A k \in 5..14 : IsUpperHex(id[k])

\* the lowercased pairs and the digest inputs of every cleaned name and
\* normalised country
LoweredNames == [ name \in CleanNames |-> lower(name) ]

LoweredCountries == [ country \in NormalCountries |-> lower(country) ]

CompanyKeys ==
  [ name \in CleanNames |-> [ country \in NormalCountries |-> CompanyKey(name, country) ] ]

\* C11: the digest input of generate_company_id separates name from country:
\* for a cleaned name and a normalised country (which may hold "|"), every
\* other such pair that differs from it after lowercasing has a different
\* digest input; ("AB","C") and ("A","BC") have different digest inputs.
C11_KeySeparatesNameFromCountry ==
  /\ CompanyKey(<< "A", "B" >>, << "C" >>) # CompanyKey(<< "A" >>, << "B", "C" >>)
  /\ (id_call # None /\ id_call.fn = "generate_company_id") =>
       LET name0 == LoweredNames[id_call.args[1]]
           country0 == LoweredCountries[id_call.args[2]]
       IN  \A name \in CleanNames, country \in NormalCountries :
             (LoweredNames[name] # name0 \/ LoweredCountries[country] # country0)
               => CompanyKeys[name][country] # id_call.key

\* a call whose name and country, glued without a separator, read the same
\* as those of another pair, and a country holding the separator
C11_Witness ==
  /\ id_call # None
  /\ id_call.fn = "generate_company_id"
  /\ id_call.args = << << "A", "b" >>, << "A" >> >>
  /\ << "A" >> \in CleanNames
  /\ << "B", "a" >> \in NormalCountries
  /\ << "A", "|" >> \in NormalCountries

\* C12: every identifier of generate_company_id is "CMP_" and 10 upper-case
\* hexadecimal characters, every identifier of generate_facility_id is "FAC_"
\* and 10 upper-case hexadecimal characters, and no organization identifier
\* equals a site identifier.
C12_IdentifierSpacesDisjoint ==
  id_call # None =>
    /\ id_call.fn = "generate_company_id" =>
         /\ IsIdentifier(id_call.id, << "C", "M", "P", "_" >>)
         /\ \A company_id \in FacilityCallIds, index \in 1..MaxIndex :
              id_call.id # generate_facility_id(company_id, index)
    /\ id_call.fn = "generate_facility_id" =>
         /\ IsIdentifier(id_call.id, << "F", "A", "C", "_" >>)
         /\ \A name \in CleanNames, country \in NormalCountries :
              id_call.id # generate_company_id(name, country)

C12_Witness ==
  /\ id_call # None
  /\ id_call.fn = "generate_facility_id"
  /\ id_call.args[2] = 2

\* the ids of a table column, and the elements of a reported list
Ids(table, col) == { table[k][col] : k \in 1..Len(table) }

Elements(list) == { list[k] : k \in 1..Len(list) }

HasRepeat(list) == \E a, b \in 1..Len(list) : a # b /\ list[a] = list[b]

\* C13: validate reports as missing_companies the link organization ids absent
\* from the organization table, as missing_facilities the link site ids absent
\* from the site table, as orphan_companies the organization ids in no link and
\* as orphan_facilities the site ids in no link (a site referenced only by a
\* link of a missing organization is not an orphan), each id once.
C13_ValidationReportLists ==
  validation # None =>
    LET f == processed_files
    IN  /\ Elements(validation.missing_companies)
             = { l.company_id : l \in Elements(f.links) } \ Ids(f.companies, "company_id")
        /\ Elements(validation.missing_facilities)
             = { l.facility_id : l \in Elements(f.links) } \ Ids(f.facilities, "facility_id")
        /\ Elements(validation.orphan_companies)
             = { c \in Ids(f.companies, "company_id") :
                   \A l \in Elements(f.links) : l.company_id # c }
        /\ Elements(validation.orphan_facilities)
             = { x \in Ids(f.facilities, "facility_id") :
                   \A l \in Elements(f.links) : l.facility_id # x }
        /\ ~ HasRepeat(validation.missing_companies)
        /\ ~ HasRepeat(validation.missing_facilities)
        /\ ~ HasRepeat(validation.orphan_companies)
        /\ ~ HasRepeat(validation.orphan_facilities)

\* organizations {A,B}, sites {S1,S2}, links {(A,S1),(X,S2)}: missing [X],
\* orphan organization [B], no orphan site
C13_Witness ==
  /\ validation # None
  /\ processed_files.companies = << [company_id |-> "A"], [company_id |-> "B"] >>
  /\ processed_files.facilities = << [facility_id |-> "S1"], [facility_id |-> "S2"] >>
  /\ processed_files.links = << [company_id |-> "A", facility_id |-> "S1"],
                                [company_id |-> "X", facility_id |-> "S2"] >>
  /\ validation.missing_companies = << "X" >>
  /\ validation.orphan_companies = << "B" >>
  /\ validation.orphan_facilities = << >>

\* C14: duplicate_company_ids is true exactly when an organization id occurs
\* in more than one organization row, duplicate_facility_ids exactly when a
\* site id occurs in more than one site row, duplicate_links exactly when an
\* (organization id, site id) pair occurs in more than one link row.
C14_DuplicateFlags ==
  validation # None =>
    LET f == processed_files
    IN  /\ validation.duplicate_company_ids
             <=> \E a, b \in 1..Len(f.companies) :
                   a # b /\ f.companies[a].company_id = f.companies[b].company_id
        /\ validation.duplicate_facility_ids
             <=> \E a, b \in 1..Len(f.facilities) :
                   a # b /\ f.facilities[a].facility_id = f.facilities[b].facility_id
        /\ validation.duplicate_links
             <=> \E a, b \in 1..Len(f.links) :
                   /\ a # b
                   /\ f.links[a].company_id = f.links[b].company_id
                   /\ f.links[a].facility_id = f.links[b].facility_id

\* two links that share the organization only: the flag stays false
C14_Witness ==
  /\ validation # None
  /\ processed_files.links = << [company_id |-> "A", facility_id |-> "S1"],
                                [company_id |-> "A", facility_id |-> "S2"] >>
  /\ ~ validation.duplicate_links
  /\ validation.duplicate_company_ids

\* the validation saw a violation of some kind
HasViolations(v) ==
  \/ v.missing_companies # << >>
  \/ v.missing_facilities # << >>
  \/ v.orphan_companies # << >>
  \/ v.orphan_facilities # << >>
  \/ v.duplicate_company_ids
  \/ v.duplicate_facility_ids
  \/ v.duplicate_links

\* C15: validate is read-only: once it has returned, the builder's three
\* tables hold the rows it loaded, in the same order.
C15_ValidateReadOnly ==
  validation # None =>
    /\ builder_companies = DataFrame(processed_files.companies)
    /\ builder_facilities = DataFrame(processed_files.facilities)
    /\ builder_links = DataFrame(processed_files.links)

C15_Witness ==
  /\ validation # None
  /\ validation.missing_companies # << >>
  /\ validation.missing_facilities # << >>
  /\ builder_links = DataFrame(processed_files.links)

\* C16: integrity violations never stop the stage: validate returns a report
\* on any loaded tables, save can always follow it, and the three tables it
\* writes hold every loaded row, offending rows included.
C16_ViolationsNeverFatal ==
  /\ (builder_companies # None /\ validation = None) => ENABLED Validate
  /\ (validation # None /\ relational_saved = None) => ENABLED BuilderSave
  /\ relational_saved # None =>
       /\ validation # None
       /\ relational_saved = processed_files

C16_Witness ==
  /\ relational_saved # None
  /\ validation.missing_companies # << >>
  /\ validation.orphan_facilities # << >>
  /\ validation.duplicate_links
  /\ validation.duplicate_company_ids
  /\ Len(relational_saved.links) = 2

\* the similarity of the sample rows at positions a and b, as the provider
\* scored their description texts
PairScore(a, b) ==
  LET text(k) == IF det_df.rows[k].description = NaN THEN ""
                 ELSE det_df.rows[k].description.val
  IN  cos_sim[text(a)][text(b)]

\* C17: detect_duplicates emits a pair for exactly the sample positions i < j
\* whose score is greater than or equal to the threshold (a score equal to the
\* threshold is emitted, a lower one is not), and every emitted pair carries
\* the ids and names of positions i and j of the sample.
C17_EmitsExactlyAtOrAboveThreshold ==
  det_pairs # None =>
    LET n == Len(det_df.rows)
    IN  /\ { det_pairs.items[k] : k \in 1..Len(det_pairs.items) }
             = { p \in (1..n) \X (1..n) :
                   p[1] < p[2] /\ PairScore(p[1], p[2]) >= similarity_threshold }
        /\ Len(duplicates) = Len(det_pairs.items)
        /\ \A k \in 1..Len(det_pairs.items) :
             /\ duplicates[k].company_1_id = det_df.rows[det_pairs.items[k][1]].company_id
             /\ duplicates[k].company_1_name = det_df.rows[det_pairs.items[k][1]].company_name
             /\ duplicates[k].company_2_id = det_df.rows[det_pairs.items[k][2]].company_id
             /\ duplicates[k].company_2_name = det_df.rows[det_pairs.items[k][2]].company_name

\* a pair scoring exactly the threshold is emitted while a pair scoring just
\* below it is not
C17_Witness ==
  /\ det_pairs # None
  /\ Len(det_df.rows) = 3
  /\ \E k \in 1..Len(det_pairs.items) :
       PairScore(det_pairs.items[k][1], det_pairs.items[k][2]) = similarity_threshold
  /\ \E a, b \in 1..3 :
       /\ a < b
       /\ PairScore(a, b) < similarity_threshold
       /\ \A k \in 1..Len(det_pairs.items) : det_pairs.items[k] # << a, b >>

\* C18: no sample position is paired with itself and no unordered pair of
\* positions is reported twice: every emitted (i, j) has i < j, (j, i) is not
\* emitted, and at most n(n-1)/2 pairs are emitted for a sample of n records.
C18_NoSelfNoMirroredPairs ==
  det_pairs # None =>
    LET n == Len(det_df.rows)
    IN  /\ \A k \in 1..Len(det_pairs.items) :
             /\ det_pairs.items[k][1] < det_pairs.items[k][2]
             /\ \A m \in 1..Len(det_pairs.items) :
                  /\ det_pairs.items[m] # << det_pairs.items[k][2], det_pairs.items[k][1] >>
                  /\ (det_pairs.items[m] = det_pairs.items[k]) => m = k
        /\ 2 * Len(det_pairs.items) <= n * (n - 1)
        /\ Len(duplicates) = Len(det_pairs.items)

\* every pair of a sample of three is emitted, two rows being the same record
C18_Witness ==
  /\ det_saved # None
  /\ Len(det_df.rows) = 3
  /\ Len(duplicates) = 3
  /\ det_df.rows[1] = det_df.rows[3]

C20_InvalidThresholdRejected ==
  (similarity_threshold <= 0 \/ similarity_threshold > 10000) =>
    /\ det_pairs = None
    /\ det_saved = None

\* ------------------------------------------------- claims on Phase 3
\* the rows of the company file whose facility_count is an integer
CountedRows == { k \in 1..Len(company_file) :
                   /\ "facility_count" \in DOMAIN company_file[k]
                   /\ company_file[k].facility_count.type = "int" }

\* the rows whose site count is missing: no column, or an empty cell
UncountedRows == (1..Len(company_file)) \ CountedRows

LinksOfCompany(links, id) == { k \in 1..Len(links) : links[k].company_id = id }

LinksOfFacility(links, id) == { k \in 1..Len(links) : links[k].facility_id = id }

\* C23: a missing or malformed optional field never fails the run: when the
\* site count of a record is missing (the column is absent or the cell is
\* empty), FacilityProcessor.process completes and generates no site for it.
C23_MissingCountMeansNoSites ==
  company_df # None =>
    /\ fac_error = None
    /\ \A k \in UncountedRows :
         LinksOfCompany(link_df.rows, company_file[k].company_id) = {}

\* C25: for a table with pairwise-distinct organization ids, process gives an
\* organization of site count n exactly n links, as many links as sites, and
\* every site id occurs in exactly one link, so no site is shared.
C25_EachSiteInExactlyOneLink ==
  (fac_facilities_df # None /\ UncountedRows = {}) =>
    LET F == fac_facilities_df.rows
        L == link_df.rows
    IN  /\ Len(L) = Len(F)
        /\ \A k \in CountedRows :
             Cardinality(LinksOfCompany(L, company_file[k].company_id))
               = company_file[k].facility_count.val
        /\ \A f \in 1..Len(F) :
             Cardinality(LinksOfFacility(L, F[f].facility_id)) = 1

\* C29: with an injective digest and a non-empty organization table of
\* non-negative integer site counts, Phase 3 followed by Phase 4 on what it
\* wrote raises nothing and yields a validation report with no
\* missing ids, no orphan site, no duplicate site id or link, and with exactly
\* the organizations of site count 0 as orphan_companies.
C29_GeneratedTablesValidateClean ==
  (md5_collisions = {} /\ UncountedRows = {} /\ company_file # << >> /\ fac_saved) =>
    /\ builder_error = None
    /\ validation # None =>
         /\ validation.missing_companies = << >>
         /\ validation.missing_facilities = << >>
         /\ validation.orphan_facilities = << >>
         /\ ~ validation.duplicate_facility_ids
         /\ ~ validation.duplicate_links
         /\ Elements(validation.orphan_companies)
              = { company_file[k].company_id :
                    k \in { j \in CountedRows : company_file[j].facility_count.val = 0 } }

\* ------------------------------------------------- claims on Phase 2 ids
\* C30: with an injective digest, no two records retained by
\* CompanyCleaner.process share a company_id.
C30_RetainedIdsDistinct ==
  cleaned_df # None =>
    \A a, b \in 1..Len(cleaned_df.rows) :
      cleaned_df.rows[a].company_id = cleaned_df.rows[b].company_id => a = b

\* -------------------------------------------- claims on input discovery
\* the artifact types a stage needs, by the table they are loaded as
RequiredInputs(stage) ==
  CASE stage \in { 3, 6 } -> [ companies |-> "companies_cleaned" ]
    [] stage = 4 -> [ companies  |-> "companies_cleaned",
                      facilities |-> "facilities_cleaned",
                      links      |-> "company_facilities" ]
    [] stage \in { 5, 7 } -> [ companies  |-> "companies",
                               facilities |-> "facilities",
                               links      |-> "company_facilities" ]

\* the timestamps of the artifacts of a type present in the directory
StampsOf(dir, type) == { ts \in Stamps : FileName(type, ts, Csv) \in dir.files }

InputMissing(stage, dir) ==
  \E role \in DOMAIN RequiredInputs(stage) : StampsOf(dir, RequiredInputs(stage)[role]) = {}

\* C21: when an artifact a stage requires is missing, the stage aborts with an
\* error raised to its caller and writes no output.
C21_MissingInputAborts ==
  (load_ret # None /\ InputMissing(load_stage, data_dir)) =>
    (load_ret.kind = "raise" /\ ~ outputs_written)

\* C22: the error a stage raises for a missing artifact is of the
\* file-not-found kind in every one of Phases 3, 4, 5, 6 and 7.
C22_MissingInputIsFileNotFound ==
  (load_ret # None /\ InputMissing(load_stage, data_dir) /\ load_ret.kind = "raise") =>
    load_ret.exc = "FileNotFoundError"

\* C26: a load that returns selected, for each table, the artifact of the
\* expected type with the greatest timestamp; in particular the site lookup of
\* AnalyticsDashboard reports a missing artifact when no site table exists.
C26_SelectsLatestOfExpectedType ==
  load_ret # None =>
    /\ load_ret.kind = "return" =>
         \A role \in DOMAIN RequiredInputs(load_stage) :
           LET type == RequiredInputs(load_stage)[role]
           IN  \E ts \in StampsOf(data_dir, type) :
                 /\ load_ret.value[role] = FileName(type, ts, Csv)
                 /\ \A other \in StampsOf(data_dir, type) : StrLeq(other, ts)
    /\ (load_stage = 5 /\ StampsOf(data_dir, "facilities") = {}) =>
         load_ret.kind = "raise"

\* ------------------------------------------ claims on organization records
\* C27: the organization table that Phase 4 saves, and the one Phase 7
\* exports, holds exactly the records deduplicate_companies returned in
\* Phase 2, in the same order and with the same field values.
C27_RecordsUnchangedAfterDedup ==
  /\ relational_csv # None => relational_csv = to_csv(FrameOfRecords(deduped_records.items))
  /\ final_csv # None => final_csv = to_csv(FrameOfRecords(deduped_records.items))

\* ------------------------------------------------ claims on pipeline runs
\* C24: a failure of the embedding provider (the model not loading when the
\* detector is created, or encode failing) happens in a pipeline run only
\* after Phases 2 and 4 of that run completed and wrote their artifacts, and
\* the step in which it happens leaves the artifacts of both unchanged.
C24_ProviderFailureAfterPhases2And4 ==
  [][ (provider_failure = "none" /\ provider_failure' # "none") =>
        /\ { 2, 4 } \subseteq completed
        /\ { 2, 4 } \subseteq completed'
        /\ artifacts[2] > 0 /\ artifacts[4] > 0
        /\ artifacts'[2] = artifacts[2]
        /\ artifacts'[4] = artifacts[4] ]_vars

C24_Witness ==
  /\ provider_failure = "encode"
  /\ failed = 6
  /\ { 2, 4 } \subseteq completed
  /\ artifacts[2] = 1 /\ artifacts[4] = 1 /\ artifacts[6] = 0

\* C28: a run starts its phases in the order 1, 2, ..., 7, each only after the
\* phase before it completed; after a phase failed no later phase is started
\* and the failure is reported; success is reported only when all seven
\* completed; a run that has not ended can always take a step, and a run that
\* has ended has reported success or failure.
C28_PhasesInOrderUntilFailure ==
  /\ \A k \in 1..Len(started) : started[k] = k
  /\ \A k \in 1..Len(started) : k > 1 => (k - 1) \in completed
  /\ completed \subseteq { started[k] : k \in 1..Len(started) }
  /\ failed # 0 =>
       /\ started[Len(started)] = failed
       /\ failed \notin completed
       /\ report = "failure"
       /\ position = Ended
  /\ report = "success" => completed = 1..7
  /\ report = "failure" => failed # 0
  /\ position # Ended => ENABLED NextPipeline
  /\ position = Ended => report \in { "success", "failure" }

C28_Witness ==
  /\ driver = "dashboard"
  /\ failed = 4
  /\ completed = { 1, 2, 3 }
  /\ started = << 1, 2, 3, 4 >>
  /\ report = "failure"

====
